---- MODULE Spec2Model ----
(***************************************************************************)
(* A model of the chip lifecycle engine of booyah (src/src/event.ts):      *)
(* ChipBase, Composite and the composite variants Parallel, Sequence,      *)
(* StateMachine and Alternative, with the leaves Forever, Transitory,      *)
(* Lambda, Wait and Block.                                                 *)
(*                                                                         *)
(* Every method of the source is an operator from heap to heap: `h` holds  *)
(* the fields of every chip object.  A call that throws sets h.err and     *)
(* every later step of the same host call is skipped, which is how the     *)
(* exception unwinds the call stack.  One host call is one action.         *)
(***************************************************************************)
EXTENDS Integers, Sequences, FiniteSets, TLC

VARIABLES cfg, heap, call, hist

vars == <<cfg, heap, call, hist>>

----------------------------------------------------------------------------
(* Bounds of the model *)

MaxElapsed == 2

MaxWait == 2

MaxActivations == 3

MaxVisited == 3

MaxCount == 4

MaxInfos == 3

MaxEdits == 2

MaxItems == 3

MaxCalls == 2

----------------------------------------------------------------------------
(* Values *)

Undef == <<>>

Some(x) == <<x>>

NoChip == "none"

NoErr == ""

Signal(name, params) == [name |-> IF name = "" THEN "default" ELSE name, params |-> params]

DefaultSignal == Signal("", "")

NumStr == <<"0", "1", "2", "3", "4", "5", "6", "7", "8", "9", "10", "11", "12">>

ToStr(n) == NumStr[n + 1]

UnknownIds == <<"unknown_a", "unknown_b", "unknown_c", "unknown_d">>

AttrNames == {"a0", "a1"}

Range(s) == {s[i] : i \in 1..Len(s)}

(* The objects a Queue creates while it runs: for the k-th item it          *)
(* activates, the Sequence QueueSequences[k] and the Lambda                 *)
(* QueueLambdas[k]; and the chips the factory "fac" returns, call after     *)
(* call.                                                                    *)
QueueSequences == <<"qs1", "qs2", "qs3">>

QueueLambdas == <<"ql1", "ql2", "ql3">>

Products == <<"fp1", "fp2", "fp3", "fp4">>

Factories == {"fac"}

Leaves ==
  {"fv", "fv2", "tr", "lam", "wA", "wB", "blk", "tw"} \cup Range(QueueLambdas) \cup Range(Products)

Composites == {"par", "seq", "alt", "sm", "cp", "fn", "q"} \cup Range(QueueSequences)

Chips == Leaves \cup Composites

Kind(c) ==
  CASE c = "par" -> "Parallel"
    [] c = "seq" \/ c \in Range(QueueSequences) -> "Sequence"
    [] c = "q" -> "Queue"
    [] c = "alt" -> "Alternative"
    [] c = "sm" -> "StateMachine"
    [] c = "cp" -> "ContextProvider"
    [] c = "fn" -> "Functional"
    [] c \in {"fv", "fv2"} \cup Range(Products) -> "Forever"
    [] c = "tr" -> "Transitory"
    [] c = "lam" \/ c \in Range(QueueLambdas) -> "Lambda"
    [] c \in {"wA", "wB"} -> "Wait"
    [] c = "blk" -> "Block"
    [] c = "tw" -> "Tween"

IsComposite(c) == c \in Composites

(* A child activation info as the constructors normalise it. `mapped` is    *)
(* the entry of Parallel._infoToChip keyed by this info object.             *)
Info(chip, id, attribute, signal) ==
  [chip |-> chip, id |-> id, attribute |-> attribute, signal |-> signal,
   include |-> FALSE, inputSignal |-> Undef, mapped |-> NoChip]

Options(id, attribute, include, inputSignal) ==
  [id |-> id, attribute |-> attribute, include |-> include, inputSignal |-> inputSignal]

----------------------------------------------------------------------------
(* The constructor arguments of each chip, read from the configuration *)

AttrOf(i) == IF cfg.attr THEN (IF i = 1 THEN "a0" ELSE "a1") ELSE ""

WaitOf(c) == IF c = "wA" THEN cfg.d1 ELSE cfg.d2

(* TweenOptions: from, to, duration; the easing is the default one *)
From(c) == 0

To(c) == 2 * cfg.d1

Duration(c) == cfg.d1

TerminateSignalOf(c) == Signal(cfg.trName, cfg.trParams)

LambdaResult(c) == cfg.lamResult

(* The Sequence a Queue wraps an item in is built with the default options *)
TerminateOnCompletion(c) == IF c \in Range(QueueSequences) THEN TRUE ELSE cfg.toc

Loop(c) == IF c \in Range(QueueSequences) THEN FALSE ELSE cfg.loop

StatesOf(c) == [start |-> cfg.first, middle |-> "fv", end |-> "fv2"]

StateNames(c) == {"start", "middle", "end"}

(* options.signals: absent; a literal signal for the state "start"; a       *)
(* function for the state "start"; a literal signal under the key "bogus",  *)
(* which is no state.                                                       *)
Transitions(c) ==
  CASE cfg.table = "literal" -> [start |-> [fn |-> FALSE, sig |-> Signal("middle", "")]]
    [] cfg.table = "function" -> [start |-> [fn |-> TRUE, sig |-> DefaultSignal]]
    [] cfg.table = "bySignal" -> [bogus |-> [fn |-> FALSE, sig |-> Signal("middle", "")]]
    [] OTHER -> <<>>

(* The function of the table: (context, signal) => signal *)
TransitionFunction(context, signal) ==
  IF signal.name = "bogus" THEN Signal("end", "") ELSE Signal("middle", "q")

EndingStates(c) == {"end"}

StartingState(c) == Signal(cfg.start, "")

(* The keys of ContextProvider._context, in enumeration order; the entry of *)
(* key ProviderNames[i] is the i-th provider, and _child is cfg.first.     *)
ProviderNames == <<"p0", "p1">>

Child(c) == cfg.first

ConstructorInfos(c) ==
  CASE c \in {"par", "seq"} ->
         [i \in 1..Len(cfg.kids) |-> Info(cfg.kids[i], "", AttrOf(i), Undef)]
    [] c = "alt" ->
         << Info(cfg.first, "", "", IF cfg.desig THEN Some(Signal("won", "")) ELSE Undef),
            Info(cfg.second, "", "", Undef) >>
    [] c = "cp" /\ cfg.root = "cp" ->
         [i \in 1..Len(cfg.kids) |-> Info(cfg.kids[i], ProviderNames[i], "", Undef)]
    [] OTHER -> <<>>

----------------------------------------------------------------------------
(* The heap *)

Listener(owner, emitter, event, cb, n, s, once) ==
  [owner |-> owner, emitter |-> emitter, event |-> event, cb |-> cb, n |-> n, s |-> s,
   once |-> once]

(* Tween's constructor subscribes options.onTick to its own updatedValue *)
ConstructorListeners ==
  IF cfg.root = "tw" \/ \E i \in 1..Len(cfg.kids) : cfg.kids[i] = "tw"
  THEN <<Listener("tw", "tw", "updatedValue", "onTick", 0, "", FALSE)>>
  ELSE <<>>

InitHeap ==
  [ state |-> [c \in Chips |-> "inactive"],
    out |-> [c \in Chips |-> Undef],
    mem |-> [c \in Chips |-> Undef],
    lastTick |-> [c \in Chips |-> 0],
    mcip |-> [c \in Chips |-> FALSE],
    deferred |-> [c \in Chips |-> Undef],
    kids |-> [c \in Chips |-> <<>>],
    childCtx |-> [c \in Chips |-> {}],
    ctx |-> [c \in Chips |-> {}],
    attrs |-> [c \in Chips |-> [a \in AttrNames |-> NoChip]],
    infos |-> [c \in Chips |-> ConstructorInfos(c)],
    count |-> [c \in Chips |-> 0],
    idx |-> [c \in Chips |-> 0],
    cur |-> [c \in Chips |-> NoChip],
    visited |-> [c \in Chips |-> <<>>],
    activeChild |-> [c \in Chips |-> NoChip],
    lastSignal |-> [c \in Chips |-> Undef],
    acc |-> [c \in Chips |-> 0],
    value |-> [c \in Chips |-> 0],
    seen |-> 0,
    ran |-> FALSE,
    calls |-> 0,
    queue |-> <<>>,
    added |-> 0,
    made |-> 0,
    built |-> 0,
    lamItem |-> [c \in Range(QueueLambdas) |-> 0],
    listeners |-> ConstructorListeners,
    saved |-> Undef,
    err |-> NoErr,
    log |-> <<>> ]

Throw(h, msg) == IF h.err # NoErr THEN h ELSE [h EXCEPT !.err = msg]

Ev(e, c, p) == [e |-> e, c |-> c, p |-> p]

Emit(h, e, c, p) == IF h.err # NoErr THEN h ELSE [h EXCEPT !.log = Append(@, Ev(e, c, p))]

(* Object.values / Object.keys of a children map kept in insertion order *)
Values(m) == [i \in 1..Len(m) |-> m[i].chip]

Keys(m) == {m[i].id : i \in 1..Len(m)}

HasKey(m, id) == \E i \in 1..Len(m) : m[i].id = id

Put(m, id, chip) ==
  IF HasKey(m, id)
  THEN [i \in 1..Len(m) |-> IF m[i].id = id THEN [id |-> id, chip |-> chip] ELSE m[i]]
  ELSE Append(m, [id |-> id, chip |-> chip])

Delete(m, id) == SelectSeq(m, LAMBDA e : e.id # id)

FreshId(m) == UnknownIds[(CHOOSE i \in 1..Len(UnknownIds) :
                 /\ ~HasKey(m, UnknownIds[i])
                 /\ \A j \in 1..(i - 1) : HasKey(m, UnknownIds[j]))]

FirstKeyOf(m, chip) ==
  IF \E i \in 1..Len(m) : m[i].chip = chip
  THEN m[CHOOSE i \in 1..Len(m) : m[i].chip = chip /\ \A j \in 1..(i - 1) : m[j].chip # chip].id
  ELSE ""

----------------------------------------------------------------------------
(* Reload mementos.  data.idx < 0 and data.hasVisited = FALSE stand for an  *)
(* absent field.  data.alias = c says that data.visitedStates is the very   *)
(* array object that chip c holds in _visitedStates (its content is         *)
(* h.visited[c]); otherwise the array is data.visited.                      *)

NoData == [idx |-> -1, hasVisited |-> FALSE, visited |-> <<>>, alias |-> NoChip]

Memento(className, data, children) ==
  [className |-> className, data |-> data, children |-> children]

ClassName(c) == Kind(c)

MementoChild(m, id) ==
  IF m # Undef /\ \E i \in 1..Len(m[1].children) : m[1].children[i].id = id
  THEN Some(m[1].children[CHOOSE i \in 1..Len(m[1].children) : m[1].children[i].id = id].m)
  ELSE Undef

VisitedOf(h, m) ==
  IF ~m.data.hasVisited THEN <<>>
  ELSE IF m.data.alias # NoChip THEN h.visited[m.data.alias]
  ELSE m.data.visited

RECURSIVE DetachMemento(_, _, _)
DetachMemento(m, c, content) ==
  [ className |-> m.className,
    data |-> IF m.data.alias = c
             THEN [m.data EXCEPT !.alias = NoChip, !.visited = content]
             ELSE m.data,
    children |-> [i \in 1..Len(m.children) |->
                   [id |-> m.children[i].id, m |-> DetachMemento(m.children[i].m, c, content)]] ]

DetachOpt(om, c, content) == IF om = Undef THEN Undef ELSE Some(DetachMemento(om[1], c, content))

(* `this._visitedStates = arr`: the array c held until now is left to the   *)
(* mementos that recorded it.                                               *)
NewVisitedArray(h, c, arr) ==
  [h EXCEPT !.saved = DetachOpt(@, c, h.visited[c]),
            !.mem = [x \in Chips |-> DetachOpt(h.mem[x], c, h.visited[c])],
            !.visited[c] = arr]

MakeReloadMementoData(h, c) ==
  CASE Kind(c) = "Sequence" -> [NoData EXCEPT !.idx = h.idx[c]]
    [] Kind(c) = "StateMachine" -> [NoData EXCEPT !.hasVisited = TRUE, !.alias = c]
    [] OTHER -> NoData

Children(h, c) == IF IsComposite(c) THEN h.kids[c] ELSE <<>>

RECURSIVE MakeReloadMemento(_, _)
MakeReloadMemento(h, c) ==
  IF h.state[c] \notin {"active", "paused"}
  THEN [err |-> "makeReloadMemento() called from state inactive", m |-> Undef]
  ELSE LET ks == Children(h, c)
           ms == [i \in 1..Len(ks) |-> MakeReloadMemento(h, ks[i].chip)]
       IN IF \E i \in 1..Len(ks) : ms[i].err # NoErr
          THEN [err |-> ms[CHOOSE i \in 1..Len(ks) : ms[i].err # NoErr].err, m |-> Undef]
          ELSE [err |-> NoErr,
                m |-> Some(Memento(ClassName(c), MakeReloadMementoData(h, c),
                            [i \in 1..Len(ks) |-> [id |-> ks[i].id, m |-> ms[i].m[1]]]))]

----------------------------------------------------------------------------
(* Event subscriptions: h.listeners holds, in registration order, every     *)
(* listener a chip installed on an emitter through _subscribe or            *)
(* _subscribeOnce and that is still installed.                              *)

Subscribe(h, owner, emitter, event, cb, n, s) ==
  IF h.err # NoErr THEN h
  ELSE [h EXCEPT !.listeners = Append(@, Listener(owner, emitter, event, cb, n, s, FALSE))]

SubscribeOnce(h, owner, emitter, event, cb, n, s) ==
  IF h.err # NoErr THEN h
  ELSE [h EXCEPT !.listeners = Append(@, Listener(owner, emitter, event, cb, n, s, TRUE))]

Unsubscribe(h, owner) ==
  IF h.err # NoErr THEN h
  ELSE [h EXCEPT !.listeners = SelectSeq(@, LAMBDA l : l.owner # owner)]

RemoveFirst(s, x) ==
  IF \E i \in 1..Len(s) : s[i] = x
  THEN LET k == CHOOSE i \in 1..Len(s) : s[i] = x /\ \A j \in 1..(i - 1) : s[j] # x
       IN [i \in 1..(Len(s) - 1) |-> IF i < k THEN s[i] ELSE s[i + 1]]
  ELSE s

(* Array.prototype.splice(k, 1), with k counted from 1 *)
RemoveAt(s, k) == [i \in 1..(Len(s) - 1) |-> IF i < k THEN s[i] ELSE s[i + 1]]

Installed(h, l) == \E i \in 1..Len(h.listeners) : h.listeners[i] = l

----------------------------------------------------------------------------
(* The lifecycle engine *)

(* Call(method, h, c, arg) is the dynamic dispatch of chip.method(arg) on the
   concrete class of chip c; the operators below it are the call sites. *)
RECURSIVE Call(_, _, _, _)
RECURSIVE ActivateChildChip(_, _, _, _)
RECURSIVE TerminateChildChip(_, _, _, _)
RECURSIVE TickChildList(_, _, _)
RECURSIVE TerminateChildList(_, _, _, _)
RECURSIVE PauseChildList(_, _)
RECURSIVE ResumeChildList(_, _)
RECURSIVE CallListeners(_, _)
RECURSIVE ParallelActivateInfos(_, _, _)
RECURSIVE AlternativeActivateInfos(_, _, _)
RECURSIVE SwitchChip(_, _)
RECURSIVE ChangeState(_, _, _)

Activate(h, c, memento) == Call("activate", h, c, memento)

Tick(h, c, tickInfo) == Call("tick", h, c, tickInfo)

Terminate(h, c, outputSignal) == Call("terminate", h, c, outputSignal)

Pause(h, c) == Call("pause", h, c, Undef)

Resume(h, c) == Call("resume", h, c, Undef)

OnActivate(h, c) == Call("_onActivate", h, c, Undef)

OnTick(h, c) == Call("_onTick", h, c, Undef)

OnAfterTick(h, c) == Call("_onAfterTick", h, c, Undef)

OnTerminate(h, c) == Call("_onTerminate", h, c, Undef)

RunCallback(h, l) == Call("callback", h, l.owner, l)

AlternativeOnChildTerminated(h, c, index) ==
  LET sig == h.infos[c][index + 1].signal
  IN Terminate(h, c, IF sig # Undef THEN sig ELSE Some(Signal(ToStr(index), "")))

(* Assignments to a chip's fields, skipped once an exception is propagating *)
SetState(h, c, state) == IF h.err # NoErr THEN h ELSE [h EXCEPT !.state[c] = state]

SetOutputSignal(h, c, sig) == IF h.err # NoErr THEN h ELSE [h EXCEPT !.out[c] = sig]

SetMethodCallInProgress(h, c, b) == IF h.err # NoErr THEN h ELSE [h EXCEPT !.mcip[c] = b]

SetChildChips(h, c, m) == IF h.err # NoErr THEN h ELSE [h EXCEPT !.kids[c] = m]

DeleteChildChip(h, c, id) == IF h.err # NoErr THEN h ELSE [h EXCEPT !.kids[c] = Delete(@, id)]

SignalOrDefault(outputSignal) ==
  IF outputSignal = Undef THEN Some(DefaultSignal) ELSE outputSignal

CallListener(h, l) ==
  IF ~Installed(h, l) THEN h
  ELSE RunCallback(IF l.once THEN [h EXCEPT !.listeners = RemoveFirst(@, l)] ELSE h, l)

CallListeners(h, ls) ==
  IF ls = <<>> \/ h.err # NoErr THEN h
  ELSE CallListeners(CallListener(h, Head(ls)), Tail(ls))

EmitTerminated(h, c) ==
  IF h.err # NoErr THEN h
  ELSE CallListeners(Emit(h, "terminated", c, ""),
                     SelectSeq(h.listeners, LAMBDA l : l.emitter = c /\ l.event = "terminated"))

(* ChipBaseActivate that keeps the memento of an earlier activation when   *)
(* it adopts none                                                          *)
ChipBaseActivateRetaining(h, c, memento) ==
  IF h.err # NoErr THEN h
  ELSE IF h.state[c] # "inactive" THEN Throw(h, "activate() called from state")
  ELSE Emit(Subscribe(OnActivate([h EXCEPT !.state[c] = "active",
                                           !.out[c] = Undef,
                                           !.mem[c] = IF memento # Undef
                                                         /\ memento[1].className = ClassName(c)
                                                      THEN memento ELSE @,
                                           !.log = Append(@, Ev("activate", c, ""))],
                                  c),
                       c, "window", "resize", "resize", 0, ""),
            "activated", c, "")

ChipBaseActivate(h, c, memento) ==
  IF h.err # NoErr THEN h
  ELSE IF h.state[c] # "inactive" THEN Throw(h, "activate() called from state")
  ELSE Emit(Subscribe(OnActivate([h EXCEPT !.state[c] = "active",
                                           !.out[c] = Undef,
                                           !.mem[c] = IF memento # Undef
                                                         /\ memento[1].className = ClassName(c)
                                                      THEN memento ELSE Undef,
                                           !.log = Append(@, Ev("activate", c, ""))],
                                  c),
                       c, "window", "resize", "resize", 0, ""),
            "activated", c, "")

(* ChipBaseTick with the state test weakened: every state but active is     *)
(* taken as paused.                                                         *)
ChipBaseTickLenient(h, c, dt) ==
  IF h.err # NoErr THEN h
  ELSE IF h.state[c] # "active" THEN h
  ELSE OnTick([h EXCEPT !.lastTick[c] = dt], c)

ChipBaseTick(h, c, dt) ==
  IF h.err # NoErr THEN h
  ELSE IF h.state[c] = "paused" THEN h
  ELSE IF h.state[c] # "active" THEN Throw(h, "tick() called from state")
  ELSE OnTick([h EXCEPT !.lastTick[c] = dt], c)

ChipBaseTerminate(h, c, outputSignal) ==
  IF h.err # NoErr THEN h
  ELSE IF h.state[c] \notin {"active", "paused"} THEN Throw(h, "terminate() called from state")
  ELSE EmitTerminated(
         SetState(Unsubscribe(OnTerminate([h EXCEPT !.out[c] = SignalOrDefault(outputSignal)], c),
                              c),
                  c, "inactive"),
         c)

ChipBasePause(h, c) ==
  IF h.err # NoErr THEN h
  ELSE IF h.state[c] # "active" THEN Throw(h, "pause() called from state")
  ELSE [h EXCEPT !.state[c] = "paused"]

ChipBaseResume(h, c) ==
  IF h.err # NoErr THEN h
  ELSE IF h.state[c] # "paused" THEN Throw(h, "resume() called from state")
  ELSE [h EXCEPT !.state[c] = "active"]

----------------------------------------------------------------------------
(* Composite *)

RemoveTerminatedChildChips(h, c) ==
  IF h.err # NoErr THEN h
  ELSE LET gone == SelectSeq(h.kids[c], LAMBDA e : h.state[e.chip] = "inactive")
       IN [h EXCEPT !.kids[c] = SelectSeq(@, LAMBDA e : h.state[e.chip] # "inactive"),
                    !.log = @ \o [i \in 1..Len(gone) |-> Ev("terminatedChildChip", gone[i].chip, c)]]

(* TickChildList that removes a terminated child as soon as it was ticked *)
TickChildListEager(h, c, list) ==
  IF list = <<>> \/ h.err # NoErr THEN h
  ELSE TickChildList(RemoveTerminatedChildChips(IF h.state[Head(list)] # "inactive"
                                                THEN Tick(h, Head(list), h.lastTick[c]) ELSE h,
                                                c),
                     c, Tail(list))

TickChildList(h, c, list) ==
  IF list = <<>> \/ h.err # NoErr THEN h
  ELSE TickChildList(IF h.state[Head(list)] # "inactive"
                     THEN Tick(h, Head(list), h.lastTick[c]) ELSE h,
                     c, Tail(list))

TickChildChips(h, c) ==
  IF h.err # NoErr THEN h
  ELSE RemoveTerminatedChildChips(TickChildList(h, c, Values(h.kids[c])), c)

(* TerminateChildList that leaves paused children alone *)
TerminateChildListActiveOnly(h, c, list, outputSignal) ==
  IF list = <<>> \/ h.err # NoErr THEN h
  ELSE TerminateChildList(
         Emit(IF h.state[Head(list)] = "active"
              THEN Terminate(h, Head(list), outputSignal) ELSE h,
              "terminatedChildChip", Head(list), c),
         c, Tail(list), outputSignal)

(* TerminateChildList that announces only the children it terminates *)
TerminateChildListLiveOnly(h, c, list, outputSignal) ==
  IF list = <<>> \/ h.err # NoErr THEN h
  ELSE TerminateChildList(
         IF h.state[Head(list)] \in {"active", "paused"}
         THEN Emit(Terminate(h, Head(list), outputSignal), "terminatedChildChip", Head(list), c)
         ELSE h,
         c, Tail(list), outputSignal)

TerminateChildList(h, c, list, outputSignal) ==
  IF list = <<>> \/ h.err # NoErr THEN h
  ELSE TerminateChildList(
         Emit(IF h.state[Head(list)] \in {"active", "paused"}
              THEN Terminate(h, Head(list), outputSignal) ELSE h,
              "terminatedChildChip", Head(list), c),
         c, Tail(list), outputSignal)

TerminateAllChildChips(h, c, outputSignal) ==
  IF h.err # NoErr THEN h
  ELSE SetChildChips(TerminateChildList(h, c, Values(h.kids[c]), outputSignal), c, <<>>)

CompositeActivate(h, c, memento) ==
  IF h.err # NoErr THEN h
  ELSE SetMethodCallInProgress(
         ChipBaseActivate([h EXCEPT !.kids[c] = <<>>, !.childCtx[c] = {}, !.mcip[c] = TRUE],
                          c, memento),
         c, FALSE)

CompositeTerminate(h, c, outputSignal) ==
  IF h.err # NoErr THEN h
  ELSE IF h.state[c] \notin {"active", "paused"} THEN Throw(h, "terminate() called from state")
  ELSE IF h.mcip[c]
  THEN Emit([h EXCEPT !.deferred[c] = SignalOrDefault(outputSignal)], "deferredTerminate", c, "")
  ELSE EmitTerminated(
         OnTerminate(
           SetOutputSignal(
             TerminateAllChildChips(Unsubscribe([h EXCEPT !.state[c] = "inactive"], c), c, Undef),
             c, SignalOrDefault(outputSignal)),
           c),
         c)

(* CompositeTick without the test of the stored termination request *)
CompositeTickIgnoringDeferred(h, c, dt) ==
  IF h.err # NoErr THEN h
  ELSE IF h.state[c] = "paused" THEN h
  ELSE IF h.state[c] # "active" THEN Throw(h, "tick() called from state")
  ELSE OnAfterTick(
         SetMethodCallInProgress(
           TickChildChips(
             SetMethodCallInProgress(OnTick([h EXCEPT !.lastTick[c] = dt], c), c, TRUE),
             c),
           c, FALSE),
         c)

CompositeTick(h, c, dt) ==
  IF h.err # NoErr THEN h
  ELSE IF h.state[c] = "paused" THEN h
  ELSE IF h.state[c] # "active" THEN Throw(h, "tick() called from state")
  ELSE IF h.deferred[c] # Undef THEN Terminate(h, c, h.deferred[c])
  ELSE OnAfterTick(
         SetMethodCallInProgress(
           TickChildChips(
             SetMethodCallInProgress(OnTick([h EXCEPT !.lastTick[c] = dt], c), c, TRUE),
             c),
           c, FALSE),
         c)

PauseChildList(h, list) ==
  IF list = <<>> \/ h.err # NoErr THEN h
  ELSE PauseChildList(Pause(h, Head(list)), Tail(list))

ResumeChildList(h, list) ==
  IF list = <<>> \/ h.err # NoErr THEN h
  ELSE ResumeChildList(Resume(h, Head(list)), Tail(list))

PauseChildChips(h, c) == IF h.err # NoErr THEN h ELSE PauseChildList(h, Values(h.kids[c]))

ResumeChildChips(h, c) == IF h.err # NoErr THEN h ELSE ResumeChildList(h, Values(h.kids[c]))

CompositePause(h, c) == PauseChildChips(RemoveTerminatedChildChips(ChipBasePause(h, c), c), c)

CompositeResume(h, c) == ResumeChildChips(RemoveTerminatedChildChips(ChipBaseResume(h, c), c), c)

(* resolveChip: a chip is returned as it is, a factory is called and       *)
(* returns a chip it has just built, which Resolved counts.                 *)
ResolveChip(h, resolvable) ==
  IF resolvable \in Factories THEN Products[h.built + 1] ELSE resolvable

Resolved(h, resolvable) ==
  IF h.err # NoErr \/ resolvable \notin Factories THEN h ELSE [h EXCEPT !.built = @ + 1]

(* _activateChildChip, first step: a chip already held by the attribute is  *)
(* terminated                                                               *)
TerminateAttributeChip(h, c, attribute) ==
  IF attribute # "" /\ h.attrs[c][attribute] # NoChip
  THEN TerminateChildChip(h, c, h.attrs[c][attribute], Undef)
  ELSE h

SetAttribute(h, c, chip, attribute) ==
  IF h.err # NoErr \/ attribute = "" THEN h
  ELSE SubscribeOnce([h EXCEPT !.attrs[c][attribute] = chip],
                     c, chip, "terminated", "deleteAttribute", 0, attribute)

IncludeInChildContext(h, c, chip, providedId, includeInChildContext) ==
  IF h.err # NoErr \/ ~includeInChildContext THEN h
  ELSE IF providedId = ""
  THEN Throw(h, "To include a child chip in the context, provide an id")
  ELSE SubscribeOnce(
         [h EXCEPT !.childCtx[c] =
            {e \in @ : e.id # providedId} \cup {[id |-> providedId, chip |-> chip]}],
         c, chip, "terminated", "deleteChildContext", 0, providedId)

(* processChipContext over contexts kept as sets of [id, chip] entries:    *)
(* Object.assign({}, context, alteredContext)                              *)
ProcessChipContext(context, alteredContext) ==
  {e \in context : \A o \in alteredContext : o.id # e.id} \cup alteredContext

(* The chipContext argument of the child's activate(), which                *)
(* ChipBase.activate stores once the state test has passed                  *)
SetChipContext(h, chip, chipContext) ==
  IF h.err # NoErr \/ h.state[chip] # "inactive" THEN h
  ELSE [h EXCEPT !.ctx[chip] = chipContext]

(* _activateChildChip, from the id check on *)
RegisterChildChip(h, c, chipResolvable, options) ==
  IF h.err # NoErr THEN h
  ELSE LET attr == options.attribute
           providedId == IF options.id # "" THEN options.id ELSE attr
           chip == ResolveChip(h, chipResolvable)
           reloadMemento == IF providedId # "" THEN MementoChild(h.mem[c], providedId) ELSE Undef
           childId == IF providedId # "" THEN providedId ELSE FreshId(h.kids[c])
           childContext == ProcessChipContext(h.ctx[c], h.childCtx[c])
       IN IF providedId # "" /\ HasKey(h.kids[c], providedId)
          THEN Throw(h, "Duplicate child chip ID provided")
          ELSE Emit(
                 IncludeInChildContext(
                   Activate(
                     SetChipContext(
                       Emit(SetAttribute([Resolved(h, chipResolvable)
                                            EXCEPT !.kids[c] = Put(@, childId, chip)],
                                         c, chip, attr),
                            "beforeActivatedChildChip", chip, c),
                       chip, childContext),
                     chip, reloadMemento),
                   c, chip, providedId, options.include),
                 "activatedChildChip", chip, c)

ActivateChildChip(h, c, chipResolvable, options) ==
  IF h.err # NoErr THEN h
  ELSE IF h.state[c] = "inactive" THEN Throw(h, "Composite is inactive")
  ELSE RegisterChildChip(TerminateAttributeChip(h, c, options.attribute), c, chipResolvable, options)

TerminateChildChip(h, c, chip, outputSignal) ==
  IF h.err # NoErr THEN h
  ELSE IF h.state[c] = "inactive" THEN Throw(h, "Composite is inactive")
  ELSE IF FirstKeyOf(h.kids[c], chip) = "" THEN Throw(h, "Cannot find chip to terminate")
  ELSE Emit(DeleteChildChip(Terminate(h, chip, outputSignal), c, FirstKeyOf(h.kids[c], chip)),
            "terminatedChildChip", chip, c)

----------------------------------------------------------------------------
(* Parallel *)

InfoWithId(info, defaultId) ==
  IF info.attribute # "" \/ info.id # "" THEN info ELSE [info EXCEPT !.id = defaultId]

InfoOptions(info) == Options(info.id, info.attribute, info.include, info.inputSignal)

(* this._infoToChip.set(info, chip); this._activatedChipCount++ *)
ParallelRecordChip(h, c, i, chip) ==
  IF h.err # NoErr THEN h
  ELSE [h EXCEPT !.infos[c][i].mapped = chip, !.count[c] = @ + 1]

ParallelActivateInfos(h, c, i) ==
  IF h.err # NoErr \/ i > Len(h.infos[c]) THEN h
  ELSE ParallelActivateInfos(
         ParallelRecordChip(
           ActivateChildChip(h, c, h.infos[c][i].chip,
                             InfoOptions(InfoWithId(h.infos[c][i], ToStr(h.count[c])))),
           c, i, ResolveChip(h, h.infos[c][i].chip)),
         c, i + 1)

ParallelOnActivate(h, c) ==
  IF Len(h.infos[c]) = 0
  THEN (IF TerminateOnCompletion(c) THEN Terminate(h, c, Some(DefaultSignal)) ELSE h)
  ELSE ParallelActivateInfos(h, c, 1)

ParallelOnAfterTick(h, c) ==
  IF Len(h.kids[c]) = 0 /\ TerminateOnCompletion(c)
  THEN Terminate(h, c, Some(DefaultSignal))
  ELSE h

ParallelAddChildChip(h, c, e) ==
  IF h.err # NoErr THEN h
  ELSE IF h.state[c] = "inactive" THEN [h EXCEPT !.infos[c] = Append(@, e)]
  ELSE ParallelRecordChip(
         ActivateChildChip([h EXCEPT !.infos[c] = Append(@, e)], c, e.chip,
                           InfoOptions(InfoWithId(e, ToStr(h.count[c])))),
         c, Len(h.infos[c]) + 1, ResolveChip(h, e.chip))

(* removeChildChip(index), index counted from 0.  `chip.terminate()` on an  *)
(* info that was never activated is a TypeError.                            *)
ParallelRemoveChildChip(h, c, index) ==
  IF h.err # NoErr THEN h
  ELSE IF index < 0 \/ index >= Len(h.infos[c])
  THEN Throw(h, "Invalid index of chip to remove")
  ELSE IF h.state[c] = "inactive" THEN [h EXCEPT !.infos[c] = RemoveAt(@, index + 1)]
  ELSE IF h.infos[c][index + 1].mapped = NoChip
  THEN Throw([h EXCEPT !.infos[c] = RemoveAt(@, index + 1)], "TypeError")
  ELSE Terminate([h EXCEPT !.infos[c] = RemoveAt(@, index + 1)],
                 h.infos[c][index + 1].mapped, Undef)

----------------------------------------------------------------------------
(* Functional.  Its functions are closures.  Under the scripts "add" and    *)
(* "remove" they hold only `tick`, a closure over the Parallel the chip is  *)
(* a child of and over a flag `ran`: on its first call it adds a Forever to *)
(* the Parallel or removes the Parallel's entry 1.  Under the script        *)
(* "count" they are closures over a counter `calls`: `activate` resets it,  *)
(* `tick` increments it, and `shouldTerminate` returns cfg.pred once it has *)
(* reached cfg.predAt and false before.                                     *)

FunctionsActivate(h, c) ==
  IF h.err # NoErr \/ cfg.script # "count" THEN h ELSE [h EXCEPT !.calls = 0]

FunctionsTick(h, c) ==
  IF h.err # NoErr \/ cfg.script = "none" THEN h
  ELSE IF cfg.script = "count" THEN [h EXCEPT !.calls = IF @ < cfg.predAt THEN @ + 1 ELSE @]
  ELSE IF h.ran THEN h
  ELSE IF cfg.script = "add"
  THEN ParallelAddChildChip([h EXCEPT !.ran = TRUE], "par", Info("fv2", "", "", Undef))
  ELSE ParallelRemoveChildChip([h EXCEPT !.ran = TRUE], "par", 1)

NoResult == [t |-> "false", name |-> "", params |-> ""]

FunctionsShouldTerminate(h, c) == IF h.calls >= cfg.predAt THEN cfg.pred ELSE NoResult

CheckForTermination(h, c) ==
  IF h.err # NoErr \/ cfg.script # "count" THEN h
  ELSE LET result == FunctionsShouldTerminate(h, c)
       IN CASE result.t = "false" -> h
            [] result.t = "string" -> Terminate(h, c, Some(Signal(result.name, "")))
            [] result.t = "signal" -> Terminate(h, c, Some(Signal(result.name, result.params)))
            [] OTHER -> Terminate(h, c, Some(DefaultSignal))

FunctionalOnActivate(h, c) == CheckForTermination(FunctionsActivate(h, c), c)

(* FunctionalOnTick that does not ask shouldTerminate *)
FunctionalOnTickUnchecked(h, c) == FunctionsTick(h, c)

FunctionalOnTick(h, c) == CheckForTermination(FunctionsTick(h, c), c)

----------------------------------------------------------------------------
(* ContextProvider *)

RECURSIVE ActivateProviders(_, _, _)
ActivateProviders(h, c, i) ==
  IF h.err # NoErr \/ i > Len(h.infos[c]) THEN h
  ELSE ActivateProviders(
         ActivateChildChip(h, c, h.infos[c][i].chip, Options(h.infos[c][i].id, "", TRUE, Undef)),
         c, i + 1)

(* ContextProviderOnActivate that activates the payload child first *)
ContextProviderOnActivateChildFirst(h, c) ==
  ActivateProviders(ActivateChildChip(h, c, Child(c), Options("child", "", FALSE, Undef)), c, 1)

ContextProviderOnActivate(h, c) ==
  ActivateChildChip(ActivateProviders(h, c, 1), c, Child(c), Options("child", "", FALSE, Undef))

----------------------------------------------------------------------------
(* Sequence *)

SetCurrentChip(h, c, chip) == IF h.err # NoErr THEN h ELSE [h EXCEPT !.cur[c] = chip]

(* _switchChip: stop current chip *)
SwitchChipStop(h, c) ==
  IF h.cur[c] = NoChip THEN h
  ELSE SetCurrentChip(IF Len(h.kids[c]) > 0 THEN TerminateChildChip(h, c, h.cur[c], Undef) ELSE h,
                      c, NoChip)

(* _switchChip: activate the entry at the current index *)
SwitchChipStart(h, c) ==
  IF h.err # NoErr \/ h.idx[c] >= Len(h.infos[c]) THEN h
  ELSE LET info == h.infos[c][h.idx[c] + 1]
       IN SetCurrentChip(
            ActivateChildChip(h, c, info.chip,
                              InfoOptions(InfoWithId(info, ToStr(Len(h.infos[c]) - 1)))),
            c, ResolveChip(h, info.chip))

SwitchChip(h, c) == IF h.err # NoErr THEN h ELSE SwitchChipStart(SwitchChipStop(h, c), c)

SequenceOnActivate(h, c) ==
  LET m == h.mem[c]
      h1 == [h EXCEPT !.idx[c] = IF m # Undef /\ m[1].data.idx >= 0 THEN m[1].data.idx ELSE 0,
                      !.cur[c] = NoChip]
  IN IF Len(h.infos[c]) = 0
     THEN (IF TerminateOnCompletion(c) THEN Terminate(h1, c, Some(DefaultSignal)) ELSE h1)
     ELSE SwitchChip(h1, c)

(* AdvanceCompleted that tests terminateOnCompletion before loop *)
AdvanceCompletedTerminateFirst(h, c, signal) ==
  IF h.err # NoErr \/ h.idx[c] < Len(h.infos[c]) THEN h
  ELSE IF TerminateOnCompletion(c) THEN Terminate(h, c, Some(signal))
  ELSE IF Loop(c) THEN SwitchChip([h EXCEPT !.idx[c] = 0], c)
  ELSE h

(* _advance, once the next entry was switched to *)
AdvanceCompleted(h, c, signal) ==
  IF h.err # NoErr \/ h.idx[c] < Len(h.infos[c]) THEN h
  ELSE IF Loop(c) THEN SwitchChip([h EXCEPT !.idx[c] = 0], c)
  ELSE IF TerminateOnCompletion(c) THEN Terminate(h, c, Some(signal))
  ELSE h

Advance(h, c, signal) ==
  IF h.err # NoErr THEN h
  ELSE AdvanceCompleted(SwitchChip([h EXCEPT !.idx[c] = @ + 1], c), c, signal)

SequenceSkip(h, c) == Advance(h, c, Signal("skip", ""))

SequenceOnAfterTick(h, c) ==
  IF h.cur[c] = NoChip \/ h.out[h.cur[c]] = Undef THEN h
  ELSE Advance(h, c, h.out[h.cur[c]][1])

----------------------------------------------------------------------------
(* Queue.  An item of _queue is [state, entityResolvable, n], n being its   *)
(* place in the order of the add() calls, which stands for the item object  *)
(* that the Lambda built for it refers to.                                  *)

QueueAdd(h, c, item) ==
  IF h.err # NoErr THEN h
  ELSE [h EXCEPT !.queue = Append(@, [state |-> "waiting", entityResolvable |-> item,
                                     n |-> h.added + 1]),
                 !.added = @ + 1]

QueueNext(h, c) ==
  IF h.err # NoErr \/ h.queue = <<>> THEN h
  ELSE LET running == SelectSeq(h.queue, LAMBDA it : it.state = "running")
       IN IF running = <<>> THEN h
          ELSE Terminate(Resolved(h, running[1].entityResolvable),
                         ResolveChip(h, running[1].entityResolvable), Undef)

(* _activateItem on the head of the queue *)
QueueActivateItem(h, c) ==
  ActivateChildChip(
    [h EXCEPT !.queue[1].state = "running",
              !.made = @ + 1,
              !.infos[QueueSequences[h.made + 1]] =
                 << Info(h.queue[1].entityResolvable, "", "", Undef),
                    Info(QueueLambdas[h.made + 1], "", "", Undef) >>,
              !.lamItem[QueueLambdas[h.made + 1]] = h.queue[1].n],
    c, QueueSequences[h.made + 1], Options("", "", FALSE, Undef))

(* QueueOnTick that activates the first waiting item, wherever it stands *)
QueueOnTickAnyWaiting(h, c) ==
  LET kept == SelectSeq(h.queue, LAMBDA it : it.state # "finished")
      waiting == SelectSeq(kept, LAMBDA it : it.state = "waiting")
  IN IF waiting = <<>> THEN [h EXCEPT !.queue = kept]
     ELSE QueueActivateItem(
            [h EXCEPT !.queue = <<waiting[1]>> \o SelectSeq(kept, LAMBDA it : it # waiting[1])], c)

(* QueueOnTick that does not drop the finished items *)
QueueOnTickKeepingFinished(h, c) ==
  IF h.queue = <<>> \/ h.queue[1].state # "waiting" THEN h
  ELSE QueueActivateItem(h, c)

QueueOnTick(h, c) ==
  LET kept == SelectSeq(h.queue, LAMBDA it : it.state # "finished")
  IN IF kept = <<>> \/ kept[1].state # "waiting" THEN [h EXCEPT !.queue = kept]
     ELSE QueueActivateItem([h EXCEPT !.queue = kept], c)

QueueOnTerminate(h, c) == [h EXCEPT !.queue = <<>>]

----------------------------------------------------------------------------
(* StateMachine *)

SetActiveChildChip(h, c, chip) ==
  IF h.err # NoErr THEN h ELSE [h EXCEPT !.activeChild[c] = chip]

(* _changeState: stop current state *)
ChangeStateStop(h, c) ==
  IF h.activeChild[c] = NoChip THEN h
  ELSE IF Len(h.kids[c]) > 0
  THEN SetActiveChildChip(TerminateChildChip(h, c, h.activeChild[c], Undef), c, NoChip)
  ELSE [h EXCEPT !.activeChild[c] = NoChip]

(* _changeState: the bookkeeping after the next state's chip was activated *)
ChangeStateRecord(h, c, chip, nextState) ==
  IF h.err # NoErr THEN h
  ELSE Emit([h EXCEPT !.activeChild[c] = chip,
                      !.lastSignal[c] = Some(nextState),
                      !.visited[c] = Append(@, nextState)],
            "stateChange", c, "")

(* ChangeStateEnter that leaves an ending state out of the history *)
ChangeStateEnterUnrecorded(h, c, nextState) ==
  IF h.err # NoErr THEN h
  ELSE IF nextState.name \in EndingStates(c)
  THEN Terminate(h, c, Some(nextState))
  ELSE IF nextState.name \in StateNames(c)
  THEN ChangeStateRecord(
         ActivateChildChip(h, c, StatesOf(c)[nextState.name],
                           Options(nextState.name, "", FALSE, Some(nextState))),
         c, ResolveChip(h, StatesOf(c)[nextState.name]), nextState)
  ELSE Throw(h, "Cannot find state")

(* _changeState: from the ending-state test on *)
ChangeStateEnter(h, c, nextState) ==
  IF h.err # NoErr THEN h
  ELSE IF nextState.name \in EndingStates(c)
  THEN Terminate([h EXCEPT !.lastSignal[c] = Some(nextState),
                           !.visited[c] = Append(@, nextState)],
                 c, Some(nextState))
  ELSE IF nextState.name \in StateNames(c)
  THEN ChangeStateRecord(
         ActivateChildChip(h, c, StatesOf(c)[nextState.name],
                           Options(nextState.name, "", FALSE, Some(nextState))),
         c, ResolveChip(h, StatesOf(c)[nextState.name]), nextState)
  ELSE Throw(h, "Cannot find state")

(* ChangeState that looks for the name in the state table before the list  *)
(* of ending states                                                         *)
ChangeStateTableFirst(h, c, nextState) ==
  IF h.err # NoErr THEN h
  ELSE IF nextState.name \in StateNames(c)
  THEN ChangeStateRecord(
         ActivateChildChip(ChangeStateStop(h, c), c, StatesOf(c)[nextState.name],
                           Options(nextState.name, "", FALSE, Some(nextState))),
         c, ResolveChip(h, StatesOf(c)[nextState.name]), nextState)
  ELSE ChangeStateEnter(ChangeStateStop(h, c), c, nextState)

ChangeState(h, c, nextState) ==
  IF h.err # NoErr THEN h ELSE ChangeStateEnter(ChangeStateStop(h, c), c, nextState)

(* changeState(name): the public method *)
StateMachineChangeState(h, c, name) == ChangeState(h, c, Signal(name, ""))

(* `_visitedStates = memento.data?.visitedStates ?? []`: the chip now holds *)
(* the array object of the memento, which the host's copy shares.           *)
AdoptVisited(h, c) ==
  LET m == h.mem[c][1]
      shared == [m EXCEPT !.data.alias = c, !.data.visited = <<>>]
  IN IF ~m.data.hasVisited THEN h
     ELSE [h EXCEPT !.visited[c] = VisitedOf(h, m),
                    !.mem[c] = Some(shared),
                    !.saved = IF @ = h.mem[c] THEN Some(shared) ELSE @]

LastOf(v) == IF v = <<>> THEN DefaultSignal ELSE v[Len(v)]

(* StateMachine.activate, after super.activate() *)
StateMachineRestore(h, c) == ChangeState(h, c, LastOf(h.visited[c]))

StateMachineStart(h, c) ==
  IF h.err # NoErr THEN h
  ELSE IF h.mem[c] # Undef
  THEN StateMachineRestore(AdoptVisited(NewVisitedArray(h, c, <<>>), c), c)
  ELSE ChangeState(NewVisitedArray(h, c, <<>>), c, StartingState(c))

StateMachineActivate(h, c, memento) == StateMachineStart(CompositeActivate(h, c, memento), c)

(* StateMachineOnAfterTick that looks the table up by the name of the      *)
(* child's output signal                                                    *)
StateMachineOnAfterTickBySignalName(h, c) ==
  IF h.activeChild[c] = NoChip \/ h.out[h.activeChild[c]] = Undef \/ h.lastSignal[c] = Undef
  THEN h
  ELSE LET signal == h.out[h.activeChild[c]][1]
           table == Transitions(c)
       IN IF signal.name \notin DOMAIN table
             /\ signal.name \notin StateNames(c) /\ signal.name \notin EndingStates(c)
          THEN Throw(h, "Cannot find signal for state")
          ELSE LET descriptor == IF signal.name \notin DOMAIN table THEN signal
                                 ELSE IF table[signal.name].fn
                                 THEN TransitionFunction(h.ctx[c], signal)
                                 ELSE table[signal.name].sig
                   nextState == IF descriptor.params = ""
                                THEN Signal(descriptor.name, signal.params)
                                ELSE descriptor
               IN ChangeState(h, c, nextState)

StateMachineOnAfterTick(h, c) ==
  IF h.activeChild[c] = NoChip \/ h.out[h.activeChild[c]] = Undef \/ h.lastSignal[c] = Undef
  THEN h
  ELSE LET signal == h.out[h.activeChild[c]][1]
           last == h.lastSignal[c][1]
           table == Transitions(c)
       IN IF last.name \notin DOMAIN table
             /\ signal.name \notin StateNames(c) /\ signal.name \notin EndingStates(c)
          THEN Throw(h, "Cannot find signal for state")
          ELSE LET descriptor == IF last.name \notin DOMAIN table THEN signal
                                 ELSE IF table[last.name].fn
                                 THEN TransitionFunction(h.ctx[c], signal)
                                 ELSE table[last.name].sig
                   nextState == IF descriptor.params = ""
                                THEN Signal(descriptor.name, signal.params)
                                ELSE descriptor
               IN ChangeState(h, c, nextState)

----------------------------------------------------------------------------
(* Alternative *)

AlternativeActivateInfos(h, c, i) ==
  IF h.err # NoErr \/ i > Len(h.infos[c]) THEN h
  ELSE AlternativeActivateInfos(
         ActivateChildChip(
           Subscribe(h, c, ResolveChip(h, h.infos[c][i].chip), "terminated",
                     "onChildTerminated", i - 1, ""),
           c, h.infos[c][i].chip, Options("", "", FALSE, Undef)),
         c, i + 1)

----------------------------------------------------------------------------
(* Leaves *)

(* The call of Lambda.f: the one a Queue builds marks its item finished *)
LambdaCall(h, c) ==
  IF c \notin Range(QueueLambdas) THEN h
  ELSE [h EXCEPT !.queue = [i \in 1..Len(h.queue) |->
                             IF h.queue[i].n = h.lamItem[c]
                             THEN [h.queue[i] EXCEPT !.state = "finished"]
                             ELSE h.queue[i]]]

LambdaOnActivate(h, c) ==
  LET result == LambdaResult(c)
  IN CASE result.t = "string" -> Terminate(LambdaCall(h, c), c, Some(Signal(result.name, "")))
       [] result.t = "signal" ->
            Terminate(LambdaCall(h, c), c, Some(Signal(result.name, result.params)))
       [] OTHER -> Terminate(LambdaCall(h, c), c, Some(DefaultSignal))

(* WaitOnTick with a strict comparison *)
WaitOnTickStrict(h, c) ==
  LET h1 == [h EXCEPT !.acc[c] = @ + h.lastTick[c]]
  IN IF h1.acc[c] > WaitOf(c) THEN Terminate(h1, c, Undef) ELSE h1

WaitOnTick(h, c) ==
  LET h1 == [h EXCEPT !.acc[c] = @ + h.lastTick[c]]
  IN IF h1.acc[c] >= WaitOf(c) THEN Terminate(h1, c, Undef) ELSE h1

----------------------------------------------------------------------------
(* Tween *)

(* chip.makeSignal(): a signal with the default name and no params *)
MakeSignal == DefaultSignal

(* easing.linear on the progress num / den, kept as a fraction *)
Linear(num, den) == <<num, den>>

(* geom.lerp(a, b, p) for the fraction p *)
Lerp(a, b, p) == a + ((b - a) * p[1]) \div p[2]

TweenUpdateValue(h, c) ==
  CallListeners(Emit(h, "updatedValue", c, ToStr(h.value[c])),
                SelectSeq(h.listeners, LAMBDA l : l.emitter = c /\ l.event = "updatedValue"))

TweenOnActivate(h, c) ==
  LET h1 == TweenUpdateValue([h EXCEPT !.value[c] = From(c)], c)
  IN [h1 EXCEPT !.acc[c] = 0]

TweenOnTick(h, c) ==
  IF h.acc[c] >= Duration(c)
  THEN TweenUpdateValue([h EXCEPT !.out[c] = Some(MakeSignal), !.value[c] = To(c)], c)
  ELSE TweenUpdateValue(
         [h EXCEPT !.acc[c] = @ + h.lastTick[c],
                   !.value[c] = Lerp(From(c), To(c),
                                     Linear(h.acc[c] + h.lastTick[c], Duration(c)))],
         c)

----------------------------------------------------------------------------
(* Dispatch on the concrete class *)

ChipOnActivate(h, c) ==
  CASE Kind(c) = "Parallel" -> ParallelOnActivate(h, c)
    [] Kind(c) = "ContextProvider" -> ContextProviderOnActivate(h, c)
    [] Kind(c) = "Sequence" -> SequenceOnActivate(h, c)
    [] Kind(c) = "Alternative" -> AlternativeActivateInfos(h, c, 1)
    [] Kind(c) = "Transitory" -> Terminate(h, c, Some(TerminateSignalOf(c)))
    [] Kind(c) = "Lambda" -> LambdaOnActivate(h, c)
    [] Kind(c) = "Wait" -> [h EXCEPT !.acc[c] = 0]
    [] Kind(c) = "Tween" -> TweenOnActivate(h, c)
    [] Kind(c) = "Functional" -> FunctionalOnActivate(h, c)
    [] OTHER -> h

ChipOnTick(h, c) ==
  LET h1 == Emit(h, "onTick", c, "")
  IN CASE Kind(c) = "Wait" -> WaitOnTick(h1, c)
       [] Kind(c) = "Tween" -> TweenOnTick(h1, c)
       [] Kind(c) = "Functional" -> FunctionalOnTick(h1, c)
       [] Kind(c) = "Queue" -> QueueOnTick(h1, c)
       [] OTHER -> h1

ChipOnAfterTick(h, c) ==
  LET h1 == Emit(h, "onAfterTick", c, "")
  IN CASE Kind(c) = "Parallel" -> ParallelOnAfterTick(h1, c)
       [] Kind(c) = "Sequence" -> SequenceOnAfterTick(h1, c)
       [] Kind(c) = "StateMachine" -> StateMachineOnAfterTick(h1, c)
       [] OTHER -> h1

ChipOnTerminate(h, c) ==
  CASE Kind(c) = "Sequence" -> [h EXCEPT !.cur[c] = NoChip]
    [] Kind(c) = "StateMachine" ->
         [h EXCEPT !.activeChild[c] = NoChip, !.lastSignal[c] = Undef]
    [] Kind(c) = "Queue" -> QueueOnTerminate(h, c)
    [] OTHER -> h

Callback(h, l) ==
  CASE l.cb = "onChildTerminated" -> AlternativeOnChildTerminated(h, l.owner, l.n)
    [] l.cb = "deleteAttribute" -> [h EXCEPT !.attrs[l.owner][l.s] = NoChip]
    [] l.cb = "onTick" -> [h EXCEPT !.seen = h.value[l.emitter]]
    [] l.cb = "deleteChildContext" ->
         [h EXCEPT !.childCtx[l.owner] = {e \in @ : e.id # l.s}]
    [] OTHER -> h

Call(method, h, c, arg) ==
  CASE method = "activate" ->
         IF Kind(c) = "StateMachine" THEN StateMachineActivate(h, c, arg)
         ELSE IF IsComposite(c) THEN CompositeActivate(h, c, arg)
         ELSE ChipBaseActivate(h, c, arg)
    [] method = "tick" ->
         IF IsComposite(c) THEN CompositeTick(h, c, arg) ELSE ChipBaseTick(h, c, arg)
    [] method = "terminate" ->
         IF IsComposite(c) THEN CompositeTerminate(h, c, arg)
         ELSE ChipBaseTerminate(h, c, arg)
    [] method = "pause" ->
         IF IsComposite(c) THEN CompositePause(h, c) ELSE ChipBasePause(h, c)
    [] method = "resume" ->
         IF IsComposite(c) THEN CompositeResume(h, c) ELSE ChipBaseResume(h, c)
    [] method = "callback" -> Callback(h, arg)
    [] h.err # NoErr -> h
    [] method = "_onActivate" -> ChipOnActivate(h, c)
    [] method = "_onTick" -> ChipOnTick(h, c)
    [] method = "_onAfterTick" -> ChipOnAfterTick(h, c)
    [] method = "_onTerminate" -> ChipOnTerminate(h, c)

BlockDone(h, c, signal) == Terminate(h, c, Some(signal))

----------------------------------------------------------------------------
(* The host: one action per call it makes on the root chip *)

NoLambda == [t |-> "other", name |-> "", params |-> ""]

BaseCfg ==
  [scn |-> "leaf", root |-> "fv", kids |-> <<>>, toc |-> TRUE, loop |-> FALSE, attr |-> FALSE,
   d1 |-> 1, d2 |-> 1, first |-> "tr", second |-> "fv", desig |-> FALSE, trName |-> "",
   trParams |-> "", script |-> "none", start |-> "start", table |-> "none",
   lamResult |-> NoLambda, pred |-> NoResult, predAt |-> 0]

LeafCfgs ==
  {[BaseCfg EXCEPT !.root = r] : r \in {"fv", "wA", "blk"}}
  \cup {[BaseCfg EXCEPT !.root = "tr", !.trName = n] : n \in {"", "bye"}}
  \cup {[BaseCfg EXCEPT !.root = "lam", !.lamResult = r] :
          r \in {NoLambda, [t |-> "string", name |-> "s", params |-> ""],
                 [t |-> "signal", name |-> "g", params |-> "p"]}}

ParallelCfgs ==
  {[BaseCfg EXCEPT !.scn = "par", !.root = "par", !.kids = k, !.toc = t, !.attr = a, !.d2 = MaxWait] :
     k \in {<<>>, <<"wA", "wB">>}, t \in BOOLEAN, a \in BOOLEAN}

(* The Parallels whose list the host edits while they run *)
EditedParallelCfgs ==
  {[BaseCfg EXCEPT !.scn = "par", !.root = "par", !.kids = <<"wA", "wB">>, !.attr = a,
                   !.d2 = MaxWait] : a \in BOOLEAN}
  \cup {[BaseCfg EXCEPT !.scn = "par", !.root = "par"]}

SequenceCfgs ==
  {[BaseCfg EXCEPT !.scn = "seq", !.root = "seq", !.kids = <<"wA", "wB">>, !.d1 = x, !.d2 = y] :
     x \in 1..MaxWait, y \in 1..MaxWait}
  \cup {[BaseCfg EXCEPT !.scn = "seq", !.root = "seq", !.kids = <<"wA", "wB">>, !.attr = TRUE]}
  \cup {[BaseCfg EXCEPT !.scn = "seq", !.root = "seq", !.kids = <<>>]}

(* The Parallels one of whose children edits the list during its tick *)
ScriptedParallelCfgs ==
  {[BaseCfg EXCEPT !.scn = "par", !.root = "par", !.kids = <<"fn", "wA", "wB">>,
                   !.d1 = x, !.d2 = MaxWait, !.script = sc] :
     x \in 1..MaxWait, sc \in {"none", "add", "remove"}}

(* The Sequences the host also skips through, with every choice of options *)
SkippedSequenceCfgs ==
  {[BaseCfg EXCEPT !.scn = "seq", !.root = "seq", !.kids = <<"wA", "tr">>, !.trName = "bye",
                   !.loop = l, !.toc = t] : l \in BOOLEAN, t \in BOOLEAN}
  \cup {[BaseCfg EXCEPT !.scn = "seq", !.root = "seq", !.kids = <<"wA", "wB">>, !.d2 = MaxWait]}

AlternativeCfgs ==
  {[BaseCfg EXCEPT !.scn = "alt", !.root = "alt", !.first = f, !.desig = d, !.trName = "out"] :
     f \in {"tr", "lam", "wA"}, d \in BOOLEAN}
  \cup {[BaseCfg EXCEPT !.scn = "alt", !.root = "alt", !.first = "seq", !.kids = <<"wA", "wB">>]}
  \cup {[BaseCfg EXCEPT !.scn = "alt", !.root = "alt", !.first = "wA", !.second = "wB",
                        !.d1 = x, !.d2 = y] : x \in 1..MaxWait, y \in 1..MaxWait}
  \cup {[BaseCfg EXCEPT !.scn = "alt", !.root = "alt", !.first = "tr", !.second = "lam",
                        !.trName = "out"]}

StateMachineCfgs ==
  {[BaseCfg EXCEPT !.scn = "sm", !.root = "sm", !.first = "tr", !.trName = "end", !.trParams = p] :
     p \in {"", "p"}}
  \cup {[BaseCfg EXCEPT !.scn = "sm", !.root = "sm", !.first = "blk"]}

(* The StateMachines the host also forces into states, with every kind of   *)
(* transition table                                                         *)
RoutedStateMachineCfgs ==
  {[BaseCfg EXCEPT !.scn = "sm", !.root = "sm", !.first = "blk", !.table = t] :
     t \in {"none", "literal", "function", "bySignal"}}
  \cup {[BaseCfg EXCEPT !.scn = "sm", !.root = "sm", !.first = "blk", !.start = "end"]}

(* A Functional alone, whose shouldTerminate returns a string, a signal,    *)
(* true or false once `tick` was called predAt times                        *)
FunctionalCfgs ==
  {[BaseCfg EXCEPT !.scn = "fn", !.root = "fn", !.script = "count", !.pred = r, !.predAt = k] :
     r \in {NoResult, [t |-> "string", name |-> "s", params |-> ""],
            [t |-> "signal", name |-> "g", params |-> "p"],
            [t |-> "true", name |-> "", params |-> ""]},
     k \in 0..MaxCalls}

TweenCfgs ==
  {[BaseCfg EXCEPT !.scn = "tween", !.root = "tw", !.d1 = x] : x \in 1..MaxWait}
  \cup {[BaseCfg EXCEPT !.scn = "seq", !.root = "seq", !.kids = <<"tw">>, !.d1 = x] :
          x \in 1..MaxWait}

ContextProviderCfgs ==
  {[BaseCfg EXCEPT !.scn = "cp", !.root = "cp", !.kids = k, !.first = "wB"] :
     k \in {<<"fv", "wA">>, <<"tr", "fv">>, <<"blk">>}}

Configs ==
  LeafCfgs \cup ContextProviderCfgs \cup ParallelCfgs \cup SequenceCfgs \cup AlternativeCfgs \cup StateMachineCfgs
    \cup TweenCfgs

Root == cfg.root

Elapsed == 0..MaxElapsed

HostSignals == {Undef, Some(Signal("quit", ""))}

DoneSignals == {Signal("end", "p"), Signal("middle", ""), Signal("bogus", "")}

(* Mementos the host may supply that no makeReloadMemento() of the running *)
(* tree returned: one of another class, and ones whose data is empty.      *)
ForgedMementos ==
  { Memento("Other", NoData, <<>>) }
  \cup (IF cfg.scn = "sm"
        THEN { Memento("StateMachine", [NoData EXCEPT !.hasVisited = TRUE], <<>>),
               Memento("StateMachine", NoData, <<>>) }
        ELSE {})
  \cup (IF cfg.scn = "seq" THEN { Memento("Sequence", NoData, <<>>) } ELSE {})

(* The errors are contract violations: the host makes no further call on a *)
(* tree after one of its calls has thrown.                                *)
Running == heap.err = NoErr

Begin(h) == [h EXCEPT !.log = <<>>]

CapTotal == 2 * MaxWait + 1

Min(a, b) == IF a < b THEN a ELSE b

ChildActivations(h) ==
  LET evs == SelectSeq(h.log, LAMBDA e : e.e = "activate" /\ e.c # Root)
  IN [i \in 1..Len(evs) |-> evs[i].c]

(* History of the host's calls.  For a Sequence root, while only ticks have *)
(* been delivered since a plain activate(): the elapsed time of those       *)
(* ticks, whether one of them ended at exactly d1, and the children         *)
(* activated so far.  `cycle` follows the first calls on the root: "a"      *)
(* after a first activate(), "at" after activate() terminate(), "ata" after *)
(* activate() terminate() activate(), all without memento, and "other" once *)
(* the host made any other call on the chip.  `supplied` says what the last *)
(* call, if it was an activate(), was given as reload memento: "none",      *)
(* "adopted" (one of the chip's own class) or "ignored" (of another class). *)
(* `edits` counts the addChildChip() and removeChildChip() calls, and       *)
(* `nexted` is, after a next() that found a running item, that item's n.    *)
NoHist == [total |-> 0, hitD1 |-> FALSE, acts |-> <<>>, clean |-> FALSE]

InitHist == [h |-> NoHist, cycle |-> "new", supplied |-> "", edits |-> 0, nexted |-> 0]

Supplied(withMemento) ==
  IF ~withMemento \/ heap.saved = Undef THEN "none"
  ELSE IF heap.saved[1].className = ClassName(Root) THEN "adopted"
  ELSE "ignored"

CycleAfter(op, withMemento) ==
  CASE op = "activate" /\ ~withMemento /\ hist.cycle = "new" -> "a"
    [] op = "terminate" /\ hist.cycle = "a" -> "at"
    [] op = "activate" /\ ~withMemento /\ hist.cycle = "at" -> "ata"
    [] OTHER -> "other"

Timed == cfg.scn \in {"seq", "tween"}

Track(h) ==
  [hist.h EXCEPT !.acts = SubSeq(@ \o ChildActivations(h), 1,
                                 Min(MaxActivations, Len(@) + Len(ChildActivations(h))))]

HistAfterActivate(h, withMemento) ==
  [h |-> IF h.err # NoErr \/ ~Timed \/ withMemento THEN NoHist
         ELSE [total |-> 0, hitD1 |-> FALSE, acts |-> ChildActivations(h), clean |-> TRUE],
   cycle |-> CycleAfter("activate", withMemento),
   supplied |-> Supplied(withMemento),
   edits |-> hist.edits,
   nexted |-> 0]

HistAfterTick(h, dt) ==
  [h |-> IF h.err # NoErr \/ ~hist.h.clean THEN hist.h
         ELSE [Track(h) EXCEPT !.total = Min(@ + dt, CapTotal),
                               !.hitD1 = @ \/ Min(hist.h.total + dt, CapTotal) = cfg.d1],
   cycle |-> "other",
   supplied |-> "",
   edits |-> hist.edits,
   nexted |-> 0]

HistAfter(op) ==
  [h |-> NoHist, cycle |-> CycleAfter(op, FALSE), supplied |-> "",
   edits |-> IF op \in {"addChildChip", "removeChildChip"} THEN hist.edits + 1 ELSE hist.edits,
   nexted |-> 0]

(* TickInfo is read only during the tick() that stored it, or handed to a   *)
(* child's activate(), where nothing reads it: it is kept for the call.     *)
Settle(h) == [h EXCEPT !.lastTick = [c \in Chips |-> 0]]

Init ==
  /\ cfg \in Configs
  /\ heap = InitHeap
  /\ call = "new"
  /\ hist = InitHist

HostActivate(withMemento) ==
  /\ Running
  /\ heap.count[Root] + Len(heap.infos[Root]) <= MaxCount
  /\ Len(heap.visited[Root]) < MaxVisited
  /\ LET h == Activate(Begin(heap), Root, IF withMemento THEN heap.saved ELSE Undef)
     IN /\ heap' = Settle(h)
        /\ hist' = HistAfterActivate(h, withMemento)
  /\ call' = "activate"
  /\ UNCHANGED cfg

HostTick(dt) ==
  /\ Running
  /\ LET h == Tick(Begin(heap), Root, dt)
     IN /\ heap' = Settle(h)
        /\ hist' = HistAfterTick(h, dt)
  /\ call' = "tick"
  /\ UNCHANGED cfg

HostTerminate(signal) ==
  /\ Running
  /\ heap' = Terminate(Begin(heap), Root, signal)
  /\ hist' = HistAfter("terminate")
  /\ call' = "terminate"
  /\ UNCHANGED cfg

HostPause ==
  /\ Running
  /\ heap' = Pause(Begin(heap), Root)
  /\ hist' = HistAfter("pause")
  /\ call' = "pause"
  /\ UNCHANGED cfg

HostResume ==
  /\ Running
  /\ heap' = Resume(Begin(heap), Root)
  /\ hist' = HistAfter("resume")
  /\ call' = "resume"
  /\ UNCHANGED cfg

HostMakeReloadMemento ==
  /\ Running
  /\ LET r == MakeReloadMemento(heap, Root)
     IN heap' = IF r.err # NoErr THEN [Begin(heap) EXCEPT !.err = r.err]
                ELSE [Begin(heap) EXCEPT !.saved = r.m]
  /\ call' = "makeReloadMemento"
  /\ UNCHANGED <<cfg, hist>>

HostSupplyMemento(m) ==
  /\ Running
  /\ IsComposite(Root)
  /\ heap.saved # Some(m)
  /\ heap' = [Begin(heap) EXCEPT !.saved = Some(m)]
  /\ call' = "supplyMemento"
  /\ UNCHANGED <<cfg, hist>>

(* The host edits the list of a Parallel at most MaxEdits times.            *)
(* What the host hands to Parallel.addChildChip: a chip alone, one with an  *)
(* id, one with an attribute, one with both.                               *)
AddedInfos ==
  { Info("fv2", "", "", Undef), Info("fv2", "0", "", Undef),
    Info("fv2", "", "a0", Undef), Info("fv2", "a1", "a0", Undef) }

HostAddChildChip(e) ==
  /\ Running
  /\ Kind(Root) = "Parallel"
  /\ hist.edits < MaxEdits
  /\ Len(heap.infos[Root]) < MaxInfos
  /\ heap.count[Root] < MaxCount
  /\ heap' = ParallelAddChildChip(Begin(heap), Root, e)
  /\ hist' = HistAfter("addChildChip")
  /\ call' = "addChildChip"
  /\ UNCHANGED cfg

HostRemoveChildChip(index) ==
  /\ Running
  /\ Kind(Root) = "Parallel"
  /\ hist.edits < MaxEdits
  /\ index < Len(heap.infos[Root])
  /\ heap' = ParallelRemoveChildChip(Begin(heap), Root, index)
  /\ hist' = HistAfter("removeChildChip")
  /\ call' = "removeChildChip"
  /\ UNCHANGED cfg

QueueCfgs == {[BaseCfg EXCEPT !.scn = "queue", !.root = "q"]}

(* What the host adds to a Queue: two chips and a factory *)
QueueItems == {"fv", "wA", "fac"}

RunningItems(h) == SelectSeq(h.queue, LAMBDA it : it.state = "running")

HostAdd(item) ==
  /\ Running
  /\ Kind(Root) = "Queue"
  /\ heap.added < MaxItems
  /\ heap.added < Len(QueueSequences)
  /\ heap' = QueueAdd(Begin(heap), Root, item)
  /\ hist' = HistAfter("add")
  /\ call' = "add"
  /\ UNCHANGED cfg

HostNext ==
  /\ Running
  /\ Kind(Root) = "Queue"
  /\ heap.built < Len(Products)
  /\ heap' = QueueNext(Begin(heap), Root)
  /\ hist' = [HistAfter("next") EXCEPT
                !.nexted = IF RunningItems(heap) = <<>> THEN 0 ELSE RunningItems(heap)[1].n]
  /\ call' = "next"
  /\ UNCHANGED cfg

ForcedStates == {"end", "middle"}

HostChangeState(name) ==
  /\ Running
  /\ Kind(Root) = "StateMachine"
  /\ Len(heap.visited[Root]) < MaxVisited
  /\ heap' = Settle(StateMachineChangeState(Begin(heap), Root, name))
  /\ hist' = HistAfter("changeState")
  /\ call' = "changeState"
  /\ UNCHANGED cfg

(* skip() leaves an inactive Sequence that neither loops nor terminates on  *)
(* completion with only its index advanced: those calls are bounded.       *)
HostSkip ==
  /\ Running
  /\ Kind(Root) = "Sequence"
  /\ heap.idx[Root] <= Len(heap.infos[Root])
  /\ heap' = Settle(SequenceSkip(Begin(heap), Root))
  /\ hist' = HistAfter("skip")
  /\ call' = "skip"
  /\ UNCHANGED cfg

HostDone(signal) ==
  /\ Running
  /\ \/ Root = "blk"
     \/ cfg.scn = "sm" /\ cfg.first = "blk"
     \/ cfg.scn = "cp" /\ cfg.kids = <<"blk">>
  /\ heap' = BlockDone(Begin(heap), "blk", signal)
  /\ hist' = HistAfter("done")
  /\ call' = "done"
  /\ UNCHANGED cfg

Next ==
  \/ \E m \in BOOLEAN : HostActivate(m)
  \/ \E dt \in Elapsed : HostTick(dt)
  \/ \E s \in HostSignals : HostTerminate(s)
  \/ HostPause
  \/ HostResume
  \/ HostMakeReloadMemento
  \/ \E m \in ForgedMementos : HostSupplyMemento(m)
  \/ \E s \in DoneSignals : HostDone(s)

Spec == Init /\ [][Next]_vars

(* The calls every chip takes *)
Lifecycle ==
  \/ \E m \in BOOLEAN : HostActivate(m)
  \/ \E dt \in Elapsed : HostTick(dt)
  \/ \E s \in HostSignals : HostTerminate(s)
  \/ HostPause
  \/ HostResume

(* A Sequence whose host also calls skip() *)
InitSequence ==
  /\ cfg \in SkippedSequenceCfgs
  /\ heap = InitHeap
  /\ call = "new"
  /\ hist = InitHist

NextSequence == Lifecycle \/ HostSkip

SpecSequence == InitSequence /\ [][NextSequence]_vars

(* A Parallel whose host also calls addChildChip() and removeChildChip() *)
InitParallel ==
  /\ cfg \in EditedParallelCfgs
  /\ heap = InitHeap
  /\ call = "new"
  /\ hist = InitHist

NextParallel ==
  \/ Lifecycle
  \/ \E e \in AddedInfos : HostAddChildChip(e)
  \/ \E i \in 0..(MaxInfos - 1) : HostRemoveChildChip(i)

SpecParallel == InitParallel /\ [][NextParallel]_vars

(* A Queue whose host also calls add() and next() *)
InitQueue ==
  /\ cfg \in QueueCfgs
  /\ heap = InitHeap
  /\ call = "new"
  /\ hist = InitHist

NextQueue ==
  \/ Lifecycle
  \/ \E item \in QueueItems : HostAdd(item)
  \/ HostNext

SpecQueue == InitQueue /\ [][NextQueue]_vars

(* A Queue that is activated once, whose items all end by themselves, and   *)
(* to which ticks keep arriving, as the Runner delivers them: one tick()    *)
(* per animation frame for as long as it runs.  TicksKeepArriving is the    *)
(* weak fairness of TimePasses, the tick() calls that bring time with them: *)
(* WF_vars(TimePasses) with ENABLED <<TimePasses>>_vars written out as the  *)
(* state predicate TimePassesEnabled.                                       *)
DrainingCfgs == {[BaseCfg EXCEPT !.scn = "queue", !.root = "q", !.d1 = x] : x \in 1..MaxWait}

EndingItems == {"wA", "tr", "lam"}

InitDraining ==
  /\ cfg \in DrainingCfgs
  /\ heap = InitHeap
  /\ call = "new"
  /\ hist = InitHist

TimePasses == heap.state[Root] = "active" /\ \E dt \in Elapsed \ {0} : HostTick(dt)

TimePassesEnabled ==
  /\ Running
  /\ heap.state[Root] = "active"
  /\ \E dt \in Elapsed \ {0} :
       <<Settle(Tick(Begin(heap), Root, dt)), HistAfterTick(Tick(Begin(heap), Root, dt), dt), "tick">>
         # <<heap, hist, call>>

TicksKeepArriving == []<>(~TimePassesEnabled) \/ []<><<TimePasses>>_vars

NextDraining ==
  \/ heap.state[Root] = "inactive" /\ HostActivate(FALSE)
  \/ heap.state[Root] = "active" /\ \E dt \in Elapsed : HostTick(dt)
  \/ \E item \in EndingItems : HostAdd(item)

SpecDraining == InitDraining /\ [][NextDraining]_vars /\ TicksKeepArriving

(* A Functional alone *)
InitFunctional ==
  /\ cfg \in FunctionalCfgs
  /\ heap = InitHeap
  /\ call = "new"
  /\ hist = InitHist

SpecFunctional == InitFunctional /\ [][Lifecycle]_vars

(* A Parallel one of whose children is a Functional that edits it *)
InitScripted ==
  /\ cfg \in ScriptedParallelCfgs
  /\ heap = InitHeap
  /\ call = "new"
  /\ hist = InitHist

SpecScripted == InitScripted /\ [][Lifecycle]_vars

(* A StateMachine whose host also calls changeState() and done() on the     *)
(* Block of its starting state                                              *)
InitStateMachine ==
  /\ cfg \in RoutedStateMachineCfgs
  /\ heap = InitHeap
  /\ call = "new"
  /\ hist = InitHist

NextStateMachine ==
  \/ Lifecycle
  \/ \E s \in DoneSignals : HostDone(s)
  \/ \E n \in ForcedStates : HostChangeState(n)

SpecStateMachine == InitStateMachine /\ [][NextStateMachine]_vars

----------------------------------------------------------------------------
(* Properties *)

Logged(log, e, c) == \E i \in 1..Len(log) : log[i].e = e /\ log[i].c = c

(* C1: a Parallel built with terminateOnCompletion = true and no child is,  *)
(* when activate() has returned and before any tick, inactive with the      *)
(* default signal as output signal.                                         *)
C1_TerminatesOnActivation ==
  (cfg.scn = "par" /\ cfg.kids = <<>> /\ cfg.toc /\ call = "activate" /\ heap.err = NoErr)
    => (heap.state[Root] = "inactive" /\ heap.out[Root] = Some(DefaultSignal))

(* C2: an Alternative over a child that terminates during its own           *)
(* activation and a Forever is, when activate() has returned, inactive with *)
(* the first child's designated signal (or the signal named after its       *)
(* index) as output signal, and the Forever is inactive.                    *)
C2_AlternativeTerminatesOnActivation ==
  (cfg.scn = "alt" /\ cfg.first \in {"tr", "lam"} /\ cfg.second = "fv"
     /\ call = "activate" /\ heap.err = NoErr)
    => /\ heap.state[Root] = "inactive"
       /\ heap.out[Root] = Some(IF cfg.desig THEN Signal("won", "") ELSE Signal("0", ""))
       /\ heap.state["fv"] = "inactive"

C3_Step ==
  /\ (call' \in {"activate", "tick"} /\ heap'.err = NoErr
        /\ Logged(heap'.log, "deferredTerminate", Root))
       => /\ heap'.state[Root] = "active"
          /\ heap'.deferred[Root] # Undef
  /\ (call' = "tick" /\ heap.state[Root] = "active" /\ heap.deferred[Root] # Undef)
       => /\ heap'.err = NoErr
          /\ heap'.state[Root] = "inactive"
          /\ heap'.out[Root] = heap.deferred[Root]
          /\ \A c \in Chips : ~Logged(heap'.log, "onTick", c)
          /\ ~Logged(heap'.log, "onAfterTick", Root)

C4_Reactivation ==
  (hist.cycle = "ata" /\ call = "activate")
    => /\ heap.err = NoErr
       /\ heap.state[Root] = "active" => heap.out[Root] = Undef

C5_Step ==
  (call' = "tick" /\ heap.state[Root] = "inactive")
    => /\ heap'.err = "tick() called from state"
       /\ \A c \in Chips : ~Logged(heap'.log, "onTick", c)
       /\ heap'.state = heap.state
       /\ heap'.out = heap.out

(* C5: tick() on a node that was never activated, or was terminated and not *)
(* reactivated, throws the invalid-state error; no tick hook runs and no    *)
(* child is ticked.                                                         *)
C5_TickWhenInactiveThrows == [][C5_Step]_vars

C5_Witness ==
  /\ IsComposite(Root) /\ cfg.kids # <<>>
  /\ call = "tick"
  /\ heap.err = "tick() called from state"
  /\ heap.state[Root] = "inactive"
  /\ heap.out[Root] # Undef

InvalidCall ==
  \/ call' = "activate" /\ heap.state[Root] # "inactive"
  \/ call' = "terminate" /\ heap.state[Root] = "inactive"
  \/ call' = "pause" /\ heap.state[Root] # "active"
  \/ call' = "resume" /\ heap.state[Root] # "paused"

(* C6: a lifecycle call made from a disallowed state throws and leaves the  *)
(* node as it was: same state, output signal, children map and              *)
(* child-context overlay.                                                   *)
C6_InvalidCallChangesNothing ==
  [][InvalidCall
       => /\ heap'.err # NoErr
          /\ heap'.state[Root] = heap.state[Root]
          /\ heap'.out[Root] = heap.out[Root]
          /\ heap'.kids[Root] = heap.kids[Root]
          /\ heap'.childCtx[Root] = heap.childCtx[Root]]_vars

SequenceOfTwoWaits == cfg.scn = "seq" /\ cfg.kids = <<"wA", "wB">>

Completed ==
  /\ heap.state[Root] = "inactive"
  /\ hist.h.acts = <<"wA", "wB">>
  /\ heap.out["wB"] # Undef
  /\ heap.out[Root] = heap.out["wB"]

(* C7 (as stated): for a Sequence [Wait(d1), Wait(d2)], once the elapsed    *)
(* times of the ticks delivered since activation sum to exactly d1 + d2,    *)
(* the sequence is inactive, A then B were activated and nothing else, and  *)
(* the output signal is B's.                                                *)
C7_CompleteAtTotal ==
  (SequenceOfTwoWaits /\ hist.h.clean /\ hist.h.total = cfg.d1 + cfg.d2) => Completed

(* C7 (amended): the same, provided the elapsed times of the first ticks    *)
(* sum to exactly d1, so that B is activated with no elapsed time lost.     *)
C7_CompleteAtTotalWhenAligned ==
  (SequenceOfTwoWaits /\ hist.h.clean /\ hist.h.hitD1 /\ hist.h.total = cfg.d1 + cfg.d2)
    => Completed

C7_Witness ==
  /\ SequenceOfTwoWaits /\ cfg.d1 = 1 /\ cfg.d2 = 2
  /\ hist.h.clean /\ hist.h.hitD1 /\ hist.h.total = 3
  /\ call = "tick" /\ heap.err = NoErr
  /\ Completed

StartChild == StatesOf(Root)["start"]

C8_Step ==
  (/\ cfg.scn = "sm" /\ call' = "tick"
   /\ heap.state[Root] = "active"
   /\ heap.visited[Root] = <<StartingState(Root)>>
   /\ heap.activeChild[Root] = StartChild
   /\ heap.out[StartChild] # Undef
   /\ heap.out[StartChild][1].name = "end")
    => /\ heap'.err = NoErr
       /\ heap'.state[Root] = "inactive"
       /\ heap'.out[Root] = heap.out[StartChild]
       /\ heap'.visited[Root] = <<StartingState(Root), heap.out[StartChild][1]>>
       /\ ~Logged(heap'.log, "activate", StatesOf(Root)["middle"])
       /\ heap'.state[StatesOf(Root)["middle"]] = "inactive"

(* C8: in the machine {start, middle, end} with no transition table, ending *)
(* state end and starting state start, once the child of start has          *)
(* terminated with a signal named "end", the tick that handles it           *)
(* terminates the machine with that signal, params included; visitedStates  *)
(* is then [start, end] and middle was not activated.                       *)
C8_EndSignalTerminatesMachine == [][C8_Step]_vars

C8_Witness ==
  /\ cfg.scn = "sm" /\ cfg.first = "blk"
  /\ call = "tick" /\ heap.err = NoErr
  /\ heap.state[Root] = "inactive"
  /\ heap.out[Root] = Some(Signal("end", "p"))
  /\ heap.visited[Root] = <<Signal("start", ""), Signal("end", "p")>>

(* The memento handed to the activate() that has just run, if it took one *)
RestoredFrom == heap'.mem[Root]

C9_Step ==
  /\ (cfg.scn = "seq" /\ call' = "makeReloadMemento" /\ heap'.err = NoErr)
       => heap'.saved[1].data.idx = heap.idx[Root]
  /\ (cfg.scn = "seq" /\ call' = "activate" /\ heap.state[Root] = "inactive")
       => IF RestoredFrom # Undef /\ RestoredFrom[1].data.idx >= 0
          THEN /\ heap'.idx[Root] = RestoredFrom[1].data.idx
               /\ heap'.idx[Root] < Len(heap.infos[Root])
                    => ChildActivations(heap') = <<heap.infos[Root][heap'.idx[Root] + 1].chip>>
          ELSE heap'.idx[Root] = 0

(* C9: the memento of a Sequence records its current index k, and           *)
(* activate() with that memento leaves the sequence at index k with entry k *)
(* as the only child activated; activate() without a memento starts at      *)
(* index 0.                                                                 *)
C9_SequenceRoundTrip == [][C9_Step]_vars

C10_Step ==
  (cfg.scn = "sm" /\ call' = "activate" /\ heap.state[Root] = "inactive"
     /\ RestoredFrom # Undef)
    => LET v == VisitedOf(heap, heap.saved[1])
       IN IF v = <<>>
          THEN heap'.err = NoErr /\ heap'.state[Root] = "active"
          ELSE v[Len(v)].name \in StateNames(Root) \ EndingStates(Root)
                 => /\ heap'.err = NoErr
                    /\ heap'.activeChild[Root] = StatesOf(Root)[v[Len(v)].name]

(* C10: activate() of a StateMachine with a memento makes the child of the  *)
(* last state in the memento's history the active state child, whatever the *)
(* starting state; with an empty history a default start is used and the    *)
(* activation succeeds.                                                     *)
C10_StateMachineRoundTrip == [][C10_Step]_vars

MementoChildIds(m) == {m.children[i].id : i \in 1..Len(m.children)}

C11_Step ==
  (Root = "par" /\ call' = "activate" /\ heap.state[Root] = "inactive"
     /\ hist'.supplied = "adopted")
    => /\ heap'.err = NoErr
       /\ Keys(heap'.kids[Root]) = MementoChildIds(heap.saved[1])
       /\ \A i \in 1..Len(heap'.kids[Root]) :
            heap'.mem[heap'.kids[Root][i].chip]
              = MementoChild(heap.saved, heap'.kids[Root][i].id)
       /\ Len(ChildActivations(heap')) = Len(heap.saved[1].children)

(* C11: activate() of a Parallel with the memento it made before it was     *)
(* terminated yields a children map with exactly the child ids of the       *)
(* memento, hands every child the sub-memento recorded under its id, and    *)
(* activates no child that had finished before the memento was made.        *)
C11_ParallelRoundTrip == [][C11_Step]_vars

C12_Step ==
  /\ (call' = "activate" /\ heap.state[Root] = "inactive" /\ hist'.supplied = "ignored")
       => /\ heap' = Settle(Activate(Begin(heap), Root, Undef))
          /\ heap'.mem[Root] = Undef
          /\ Kind(Root) = "Sequence" => heap'.idx[Root] = 0
          /\ (Kind(Root) = "StateMachine" /\ heap'.err = NoErr)
               => heap'.visited[Root][1] = StartingState(Root)
  /\ (call' = "activate" /\ heap.state[Root] = "inactive" /\ hist'.supplied = "none")
       => heap'.mem[Root] = Undef

(* C12: activate() with a memento whose className is not the node's class   *)
(* leaves the node exactly as activate() without memento does (a Sequence   *)
(* at index 0, a StateMachine at its starting state), and activate()        *)
(* without memento leaves the node with no memento, whatever an earlier     *)
(* activation had adopted.                                                  *)
C12_ForeignMementoIgnored == [][C12_Step]_vars

C12_Witness ==
  /\ cfg.scn = "sm" /\ call = "activate" /\ hist.supplied = "ignored"
  /\ heap.err = NoErr
  /\ heap.saved # Undef /\ heap.mem[Root] = Undef
  /\ heap.visited[Root] = <<StartingState(Root)>>
  /\ heap.activeChild[Root] = StatesOf(Root)["start"]

EntryChips == {heap.infos[Root][i].chip : i \in 1..Len(heap.infos[Root])}

EntryTerminations(log) ==
  SelectSeq(log, LAMBDA e : e.e = "terminated" /\ e.c \in EntryChips)

Outcome(chip) ==
  LET i == CHOOSE k \in 1..Len(heap.infos[Root]) : heap.infos[Root][k].chip = chip
      sig == heap.infos[Root][i].signal
  IN IF sig # Undef THEN sig ELSE Some(Signal(ToStr(i - 1), ""))

C19_Step ==
  /\ (/\ Root = "alt" /\ call' \in {"activate", "tick"}
      /\ heap.deferred[Root] = Undef /\ heap'.err = NoErr
      /\ EntryTerminations(heap'.log) # <<>>)
       => \/ heap'.deferred[Root] = Outcome(EntryTerminations(heap'.log)[1].c)
          \/ heap'.out[Root] = Outcome(EntryTerminations(heap'.log)[1].c)
  /\ (/\ Root = "alt" /\ call' = "tick"
      /\ heap.state[Root] = "active" /\ heap.deferred[Root] # Undef)
       => heap'.out[Root] = heap.deferred[Root]

(* C19: when entries of an Alternative terminate, during its activation or  *)
(* during one of its ticks, the signal the Alternative terminates with is   *)
(* the outcome signal of the entry that terminated first, also when several *)
(* entries terminate within the same call.                                  *)
C19_FirstTerminatedWins == [][C19_Step]_vars

Reports(log, c, v) ==
  LET evs == SelectSeq(log, LAMBDA e : e.e = "updatedValue" /\ e.c = c)
  IN evs # <<>> /\ evs[Len(evs)].p = ToStr(v)

(* The tick that has just run is the one in which the time elapsed since a  *)
(* plain activate() first reached d                                         *)
FirstReaches(d) ==
  call' = "tick" /\ hist.h.clean /\ hist.h.total < d /\ hist'.h.total >= d

C17_Step ==
  /\ (Root = "tw" /\ call' = "activate" /\ heap.state[Root] = "inactive")
       => /\ heap'.err = NoErr
          /\ heap'.value[Root] = From(Root)
          /\ Reports(heap'.log, Root, From(Root))
  /\ (Root = "tw" /\ FirstReaches(Duration(Root)))
       => /\ heap'.err = NoErr
          /\ heap'.value[Root] = To(Root)
          /\ Reports(heap'.log, Root, To(Root))
          /\ heap'.state[Root] = "inactive"

(* C17: a Tween reports `from` when it is activated, and in the tick in     *)
(* which the time elapsed since activation first reaches its duration it    *)
(* reports `to` and is inactive when the tick returns.                      *)
C17_TweenCompletes == [][C17_Step]_vars

C18_Step ==
  /\ (Root = "seq" /\ cfg.kids = <<"tw">> /\ call' = "activate" /\ hist'.h.clean)
       => heap'.state["tw"] = "active"
  /\ (Root = "seq" /\ cfg.kids = <<"tw">> /\ FirstReaches(Duration("tw")))
       => /\ heap'.err = NoErr
          /\ heap'.state["tw"] = "inactive"

(* C18: a Tween that is the only entry of a Sequence is active when the     *)
(* Sequence's activate() returns, and inactive when the Sequence's tick     *)
(* returns for the tick in which the elapsed time reaches its duration.     *)
C18_TweenInSequence == [][C18_Step]_vars

Payload == Child(Root)

(* The events of the call that has just run, up to the activation of the *)
(* payload child                                                         *)
BeforePayload ==
  LET log == heap'.log
      k == CHOOSE j \in 1..Len(log) : log[j].e = "activate" /\ log[j].c = Payload
  IN SubSeq(log, 1, k - 1)

ProvidersVisible ==
  /\ Logged(heap'.log, "activate", Payload)
  /\ \A i \in 1..Len(heap.infos[Root]) :
       /\ Logged(BeforePayload, "activate", heap.infos[Root][i].chip)
       /\ [id |-> heap.infos[Root][i].id, chip |-> heap.infos[Root][i].chip]
            \in heap'.ctx[Payload]

ContextProviderActivated ==
  Root = "cp" /\ call' = "activate" /\ heap.state[Root] = "inactive" /\ heap'.err = NoErr

(* C20 (as stated): when the payload child of a ContextProvider is          *)
(* activated, every provider child has been activated and has not           *)
(* terminated, and the payload's context maps each provider name to that    *)
(* provider.                                                                *)
C20_ProvidersLive ==
  [][ContextProviderActivated
       => /\ ProvidersVisible
          /\ \A i \in 1..Len(heap.infos[Root]) :
               ~Logged(BeforePayload, "terminated", heap.infos[Root][i].chip)]_vars

(* C20 (amended): when the payload child of a ContextProvider is activated, *)
(* every provider child has been activated and the payload's context maps  *)
(* each provider name to that provider; a provider is still live then       *)
(* unless it terminated during its own activation.                          *)
C20_ProvidersActivatedFirst ==
  [][ContextProviderActivated
       => /\ ProvidersVisible
          /\ \A i \in 1..Len(heap.infos[Root]) :
               Logged(BeforePayload, "terminated", heap.infos[Root][i].chip)
                 => Kind(heap.infos[Root][i].chip) \in {"Transitory", "Lambda"}]_vars

C20_Witness ==
  /\ Root = "cp" /\ cfg.kids = <<"fv", "wA">>
  /\ call = "activate" /\ heap.err = NoErr
  /\ heap.state["fv"] = "active" /\ heap.state["wA"] = "active"
  /\ heap.state["wB"] = "active"
  /\ heap.ctx["wB"] = {[id |-> "p0", chip |-> "fv"], [id |-> "p1", chip |-> "wA"]}
  /\ heap.ctx["wA"] = {[id |-> "p0", chip |-> "fv"]}

Live(h, c) == h.state[c] # "inactive"

HasLiveParent(h, c) ==
  \E p \in Composites : Live(h, p) /\ \E i \in 1..Len(h.kids[p]) : h.kids[p][i].chip = c

C13_Step ==
  /\ (call' = "terminate" /\ Live(heap, Root))
       => /\ heap'.err = NoErr
          /\ \A c \in Chips : ~Live(heap', c)
  /\ heap'.err = NoErr
       => /\ \A p \in Composites :
               (Live(heap, p) /\ ~Live(heap', p))
                 => \A i \in 1..Len(heap.kids[p]) : ~Live(heap', heap.kids[p][i].chip)
          /\ \A c \in Chips \ {Root} : Live(heap', c) => HasLiveParent(heap', c)

(* C13 (as stated): whenever terminate() returns on a live node, that node  *)
(* is inactive, and so is every node that was a live descendant of it; no   *)
(* terminate() call returns leaving its node live.                          *)
C13_TerminationIsSynchronous ==
  [][C13_Step /\ \A c \in Chips : ~Logged(heap'.log, "deferredTerminate", c)]_vars

(* C13 (amended): when a terminate() that is not deferred returns on a live *)
(* node, the node and every node that was a live descendant of it are       *)
(* inactive; a composite that terminates during any call leaves none of its *)
(* children live, and no node other than the root is ever active or paused  *)
(* without being in the children map of a live parent.                      *)
C13_TerminationIsRecursive == [][C13_Step]_vars

C13_Witness ==
  /\ cfg.scn = "alt" /\ cfg.first = "seq"
  /\ call = "terminate" /\ heap.err = NoErr
  /\ Logged(heap.log, "terminated", "wB")
  /\ Logged(heap.log, "terminated", "seq")
  /\ Logged(heap.log, "terminated", "fv")
  /\ Logged(heap.log, "terminated", Root)
  /\ \A c \in Chips : ~Live(heap, c)

Terminated(c) == heap.state[c] = "inactive" /\ heap.out[c] # Undef

(* C14: while a node is inactive after a termination, no subscription it    *)
(* registered through _subscribe or _subscribeOnce is installed on any      *)
(* emitter.                                                                 *)
C14_NoSubscriptionAfterTermination ==
  heap.err = NoErr
    => \A c \in Chips :
         Terminated(c) => \A i \in 1..Len(heap.listeners) : heap.listeners[i].owner # c

(* Node c has completed an activate/terminate cycle by the end of the step *)
CompletedCycle(c) ==
  \/ ~Live(heap, c) /\ heap.out[c] # Undef
  \/ Logged(heap'.log, "terminated", c)

C15_Step ==
  heap'.err = NoErr
    => \A c \in Chips :
         heap'.out[c] # Undef <=> (CompletedCycle(c) /\ ~Live(heap', c))

(* C15: between calls, a node's output signal is defined exactly if the     *)
(* node has completed an activate/terminate cycle and is not live; no       *)
(* active node has an output signal.                                        *)
C15_OutputSignalIffTerminated == [][C15_Step]_vars

(* C16: when activate(), tick(), pause() or resume() of the root has        *)
(* returned, the children map of every active composite holds no inactive   *)
(* node.                                                                    *)
C16_NoInactiveChild ==
  [][(call' \in {"activate", "tick", "pause", "resume"} /\ heap'.err = NoErr)
       => \A p \in Composites :
            heap'.state[p] = "active"
              => \A i \in 1..Len(heap'.kids[p]) : Live(heap', heap'.kids[p][i].chip)]_vars

(* The root is a Sequence with entries, active and at its last entry, whose *)
(* current child has completed by the end of the children's ticks of this   *)
(* step's tick().                                                           *)
LastEntryCompletes ==
  /\ Kind(Root) = "Sequence"
  /\ Len(heap.infos[Root]) > 0
  /\ heap.state[Root] = "active"
  /\ heap.deferred[Root] = Undef
  /\ heap.idx[Root] = Len(heap.infos[Root]) - 1
  /\ heap.cur[Root] # NoChip
  /\ call' = "tick"
  /\ heap'.err = NoErr
  /\ (heap.out[heap.cur[Root]] # Undef \/ Logged(heap'.log, "terminated", heap.cur[Root]))

C25_Step ==
  /\ LastEntryCompletes =>
       IF Loop(Root)
       THEN /\ heap'.state[Root] = "active"
            /\ heap'.idx[Root] = 0
            /\ heap'.cur[Root] = heap.infos[Root][1].chip
            /\ Logged(heap'.log, "activate", heap.infos[Root][1].chip)
       ELSE IF TerminateOnCompletion(Root)
       THEN /\ heap'.state[Root] = "inactive"
            /\ heap'.out[Root] = heap'.out[heap.cur[Root]]
       ELSE /\ heap'.state[Root] = "active"
            /\ heap'.kids[Root] = <<>>
            /\ heap'.cur[Root] = NoChip
  /\ (Kind(Root) = "Sequence" /\ Len(heap.infos[Root]) > 0 /\ Loop(Root)
        /\ heap.state[Root] # "inactive" /\ heap'.state[Root] = "inactive")
       => call' = "terminate"

(* C25: when the last entry of a Sequence completes, a looping sequence     *)
(* activates entry 0 in the same tick and only terminate() ends it; a       *)
(* sequence that does not loop terminates with the last child's output      *)
(* signal if terminateOnCompletion is set and otherwise stays active with   *)
(* no child.                                                                *)
C25_SequenceCompletion == [][C25_Step]_vars

C25_Witness ==
  /\ cfg.kids = <<"wA", "tr">>
  /\ Loop(Root)
  /\ call = "tick"
  /\ heap.err = NoErr
  /\ Logged(heap.log, "terminatedChildChip", "tr")
  /\ Logged(heap.log, "activate", "wA")
  /\ heap.state["wA"] = "active"

C26_Step ==
  (Kind(Root) = "Sequence" /\ heap.state[Root] = "active" /\ heap.cur[Root] # NoChip
     /\ heap.idx[Root] < Len(heap.infos[Root]) /\ call' = "skip")
    => /\ heap'.err = NoErr
       /\ heap'.state[heap.cur[Root]] = "inactive" \/ Len(heap.infos[Root]) = 1
       /\ heap.idx[Root] + 1 < Len(heap.infos[Root])
            => /\ heap'.cur[Root] = heap.infos[Root][heap.idx[Root] + 2].chip
               /\ \/ heap'.state[heap'.cur[Root]] = "active"
                  \/ Kind(heap'.cur[Root]) \in {"Transitory", "Lambda"}
       /\ (heap.idx[Root] + 1 = Len(heap.infos[Root]) /\ ~Loop(Root))
            => /\ heap'.state[Root] = "inactive"
               /\ heap'.out[Root] = Some(Signal("skip", ""))

(* C26: skip() on an active Sequence whose current child is entry i returns *)
(* without error with that child inactive and entry i+1 the current child,  *)
(* active unless it terminates during its own activation, or, when i was    *)
(* the last entry of a sequence that does not loop, with the sequence       *)
(* inactive and its output signal named "skip".                             *)
C26_SkipAdvances == [][C26_Step]_vars

(* The chips of the children map of the root *)
RootChildren(h) == {h.kids[Root][i].chip : i \in 1..Len(h.kids[Root])}

C27_Step ==
  Kind(Root) = "Parallel" =>
    /\ (TerminateOnCompletion(Root) /\ heap.state[Root] = "active" /\ call' = "tick"
          /\ heap'.err = NoErr /\ \A k \in RootChildren(heap) : heap'.state[k] = "inactive")
         => /\ heap'.state[Root] = "inactive"
            /\ heap'.out[Root] = Some(DefaultSignal)
    /\ (heap.state[Root] # "inactive" /\ heap'.state[Root] = "inactive" /\ call' # "terminate")
         => /\ TerminateOnCompletion(Root)
            /\ call' = "tick"
            /\ \A k \in RootChildren(heap) :
                 heap.state[k] = "inactive" \/ Logged(heap'.log, "onTick", k)

(* C27: a Parallel with terminateOnCompletion terminates with the default   *)
(* signal in the first tick at whose end no child is live; a Parallel ends  *)
(* by itself only with that option, in a tick, and every child that was     *)
(* live before that tick was ticked in it and terminated by itself.         *)
C27_ParallelCompletion == [][C27_Step]_vars

C28_Step ==
  (Kind(Root) = "Parallel" /\ heap.state[Root] = "active" /\ call' = "removeChildChip")
    => /\ heap'.err = NoErr
       /\ \E i \in 1..Len(heap.infos[Root]) :
            /\ heap'.infos[Root] = RemoveAt(heap.infos[Root], i)
            /\ heap'.state[heap.infos[Root][i].mapped] = "inactive"

(* C28: removeChildChip on an active Parallel returns without error, with   *)
(* the child-spec removed from the list and its node inactive, whether the  *)
(* node was live or had already finished.                                   *)
C28_RemoveChildChip == [][C28_Step]_vars

(* The info handed to the addChildChip() of this step, and the id it asks   *)
(* for                                                                       *)
AddedInfo == heap'.infos[Root][Len(heap'.infos[Root])]

ProvidedId(info) == IF info.id # "" THEN info.id ELSE info.attribute

C30_Step ==
  (call' = "addChildChip" /\ heap.state[Root] = "active"
     /\ HasKey(heap.kids[Root], ProvidedId(AddedInfo)))
    => /\ heap'.err = "Duplicate child chip ID provided"
       /\ heap'.kids[Root] = heap.kids[Root]
       /\ heap'.attrs[Root] = heap.attrs[Root]
       /\ \A k \in RootChildren(heap) : heap'.state[k] = heap.state[k]

(* C30: activating a child under an id that is already a key of the         *)
(* children map fails with the duplicate-id error, and no child is          *)
(* terminated or replaced: children map, attributes and children's states   *)
(* are as before.                                                           *)
C30_DuplicateIdChangesNothing == [][C30_Step]_vars

(* This step is a transition of the root StateMachine into the state the   *)
(* history now ends with: the starting state, the state routed to at the    *)
(* end of a tick, or the state the host forced.                             *)
TransitionTaken ==
  /\ Kind(Root) = "StateMachine"
  /\ call' \in {"activate", "tick", "changeState"}
  /\ heap'.err = NoErr
  /\ heap'.visited[Root] # <<>>
  /\ call' = "activate" \/ Len(heap'.visited[Root]) = Len(heap.visited[Root]) + 1

C23_Step ==
  (TransitionTaken /\ LastOf(heap'.visited[Root]).name \in EndingStates(Root))
    => /\ heap'.state[Root] = "inactive"
       /\ heap'.out[Root] # Undef
       /\ heap'.out[Root][1].name = LastOf(heap'.visited[Root]).name
       /\ \A c \in Chips \ {Root} : ~Logged(heap'.log, "activate", c)
       /\ heap'.kids[Root] = <<>>

(* C23: a transition of a StateMachine (starting state, routed at the end   *)
(* of a tick, or forced by changeState) whose target is a declared ending   *)
(* state activates no child, although the name is also a key of the state   *)
(* table, and leaves the machine inactive with an output signal of that     *)
(* name.                                                                    *)
C23_EndingStateTerminates == [][C23_Step]_vars

C23_Witness ==
  /\ Kind(Root) = "StateMachine"
  /\ call = "changeState"
  /\ heap.err = NoErr
  /\ "end" \in StateNames(Root)
  /\ heap.state[Root] = "inactive"
  /\ heap.out[Root] = Some(Signal("end", ""))

(* The name of the state the claim routes to when the child of state p ends *)
(* with signal s; "" where it says routing fails.                           *)
Routed(p, s) ==
  IF p \in DOMAIN Transitions(Root)
  THEN (IF Transitions(Root)[p].fn THEN TransitionFunction(heap.ctx[Root], s)
        ELSE Transitions(Root)[p].sig).name
  ELSE IF s.name \in StateNames(Root) \cup EndingStates(Root) THEN s.name
  ELSE ""

(* The root StateMachine is active in a state whose child has terminated,   *)
(* and this step is its next tick.                                          *)
ChildTerminated ==
  /\ Kind(Root) = "StateMachine"
  /\ heap.state[Root] = "active"
  /\ heap.deferred[Root] = Undef
  /\ heap.activeChild[Root] # NoChip
  /\ heap.out[heap.activeChild[Root]] # Undef
  /\ heap.lastSignal[Root] # Undef
  /\ call' = "tick"

C24_Step ==
  ChildTerminated =>
    LET target == Routed(heap.lastSignal[Root][1].name, heap.out[heap.activeChild[Root]][1])
    IN IF target = "" THEN heap'.err = "Cannot find signal for state"
       ELSE IF target \in StateNames(Root) \cup EndingStates(Root)
       THEN /\ heap'.err = NoErr
            /\ Len(heap'.visited[Root]) = Len(heap.visited[Root]) + 1
            /\ LastOf(heap'.visited[Root]).name = target
       ELSE heap'.err = "Cannot find state"

(* C24: when the child of the current state P has terminated with signal s, *)
(* the tick routes to the entry of the transition table under P's name if   *)
(* there is one (the literal signal, or the function's result), otherwise   *)
(* to the state named s.name if that is a declared state or ending state,   *)
(* and otherwise fails with the unknown-state error.                        *)
C24_Routing == [][C24_Step]_vars

C24_Witness ==
  /\ cfg.table = "bySignal"
  /\ call = "tick"
  /\ heap.out["blk"] = Some(Signal("bogus", ""))
  /\ heap.err = "Cannot find signal for state"

(* How often chip c was ticked during the call, by its log *)
Ticks(log, c) == Cardinality({i \in 1..Len(log) : log[i].e = "onTick" /\ log[i].c = c})

(* Chip c was inactive when the call began, or was terminated during the    *)
(* call before any tick of its own.                                         *)
DeadBeforeTurn(c) ==
  \/ heap.state[c] = "inactive"
  \/ \E i \in 1..Len(heap'.log) :
       /\ heap'.log[i].e = "terminated" /\ heap'.log[i].c = c
       /\ \A j \in 1..(i - 1) : ~(heap'.log[j].e = "onTick" /\ heap'.log[j].c = c)

(* The reconciliation removed chip c from the root's map after the last     *)
(* tick of a child and before the root's after-tick hook.                   *)
RemovedByReconciliation(c) ==
  \E r \in 1..Len(heap'.log) :
    /\ heap'.log[r] = Ev("terminatedChildChip", c, Root)
    /\ \A j \in 1..Len(heap'.log) :
         /\ (heap'.log[j].e = "onTick" /\ heap'.log[j].c \in RootChildren(heap)) => j < r
         /\ heap'.log[j] = Ev("onAfterTick", Root, "") => r < j

C29_Step ==
  (Kind(Root) = "Parallel" /\ heap.state[Root] = "active" /\ heap.deferred[Root] = Undef
     /\ call' = "tick" /\ heap'.err = NoErr)
    => /\ Logged(heap'.log, "onAfterTick", Root)
       /\ \A k \in RootChildren(heap) :
            /\ Ticks(heap'.log, k) = IF DeadBeforeTurn(k) THEN 0 ELSE 1
            /\ heap'.state[k] = "inactive"
                 => (RemovedByReconciliation(k) /\ k \notin RootChildren(heap'))
       /\ \A i \in 1..Len(heap'.log) :
            (heap'.log[i].e = "activatedChildChip" /\ heap'.log[i].p = Root)
              => Ticks(heap'.log, heap'.log[i].c) = 0

(* C29: in one tick of an active composite every child of its map that is   *)
(* live at its turn is ticked exactly once, a child that was made inactive  *)
(* earlier in the batch is not ticked, a child activated during the batch   *)
(* is not ticked, and every child that is inactive after the batch is       *)
(* removed from the map by the reconciliation, after the last child's tick  *)
(* and before the after-tick hook.                                          *)
C29_TickBatch == [][C29_Step]_vars

C29_Witness ==
  /\ cfg.script = "remove"
  /\ call = "tick"
  /\ heap.err = NoErr
  /\ Logged(heap.log, "onTick", "fn")
  /\ Logged(heap.log, "terminated", "wA")
  /\ ~Logged(heap.log, "onTick", "wA")
  /\ Logged(heap.log, "onTick", "wB")
  /\ Logged(heap.log, "onAfterTick", Root)

----------------------------------------------------------------------------
(* C22: in a Queue, whatever add(), next() and tick() calls were made, at   *)
(* most one item is running, a running item is the head of the queue,       *)
(* every item behind the head is waiting, and the items are activated in    *)
(* the order they were added: the queue is in the order of the add() calls, *)
(* the items the successive wrappers were built for are in that order too,  *)
(* and every item still waiting was added after each activated one.         *)
C22_QueueOrder ==
  (Kind(Root) = "Queue") =>
    /\ Len(RunningItems(heap)) <= 1
    /\ \A i \in 1..Len(heap.queue) : i > 1 => heap.queue[i].state = "waiting"
    /\ \A i, j \in 1..Len(heap.queue) : i < j => heap.queue[i].n < heap.queue[j].n
    /\ \A k \in 1..heap.made :
         /\ \A l \in 1..heap.made :
              k < l => heap.lamItem[QueueLambdas[k]] < heap.lamItem[QueueLambdas[l]]
         /\ \A i \in 1..Len(heap.queue) :
              heap.queue[i].state = "waiting" => heap.lamItem[QueueLambdas[k]] < heap.queue[i].n

(* The second item added is running after the first one has finished, and  *)
(* a third one waits behind it.                                             *)
C22_Witness ==
  /\ Kind(Root) = "Queue"
  /\ heap.err = NoErr
  /\ call = "tick"
  /\ Len(heap.queue) = 2
  /\ heap.queue[1].state = "running"
  /\ heap.queue[1].n = 2
  /\ heap.queue[2].state = "waiting"

----------------------------------------------------------------------------
(* The node that runs for the item numbered n: the current child of the     *)
(* Sequence the queue wrapped the item in.                                  *)
ItemNode(h, n) ==
  h.cur[QueueSequences[CHOOSE k \in 1..h.made : h.lamItem[QueueLambdas[k]] = n]]

WaitingItems(h) == SelectSeq(h.queue, LAMBDA it : it.state = "waiting")

(* next() called while an item is running ends that item's node and does    *)
(* not throw                                                                *)
C21_NextStep ==
  (Kind(Root) = "Queue" /\ RunningItems(heap) # <<>> /\ call' = "next")
    => /\ heap'.err = NoErr
       /\ heap'.state[ItemNode(heap, RunningItems(heap)[1].n)] = "inactive"

(* on the tick after such a next() the item has left the queue and the      *)
(* first waiting item, if there is one, is running                          *)
C21_TickStep ==
  (Kind(Root) = "Queue" /\ hist.nexted # 0 /\ heap.state[Root] = "active" /\ call' = "tick")
    => /\ heap'.err = NoErr
       /\ \A i \in 1..Len(heap'.queue) : heap'.queue[i].n # hist.nexted
       /\ WaitingItems(heap) # <<>>
            => /\ heap'.queue # <<>>
               /\ heap'.queue[1].n = WaitingItems(heap)[1].n
               /\ heap'.queue[1].state \in {"running", "finished"}

C21_NextThrows == [][C21_NextStep]_vars

C21_TickLate == [][C21_TickStep]_vars

(* C21: Queue.next() called while an item is running terminates that item's *)
(* node without error, whether the item was given as a chip or as a         *)
(* factory, and on the tick that follows the item is no longer in the queue *)
(* and the next waiting item, if any, has been activated.                   *)
C21_NextAdvancesQueue == [][C21_NextStep /\ C21_TickStep]_vars

----------------------------------------------------------------------------
(* C31: an attribute of a composite refers to a chip only while that chip   *)
(* is a live child of the composite: whenever a call has returned, a chip   *)
(* held by an attribute is in the children map and is not inactive.         *)
C31_AttributeHoldsLiveChild ==
  (IsComposite(Root) /\ heap.err = NoErr) =>
    \A a \in AttrNames :
      heap.attrs[Root][a] # NoChip =>
        /\ heap.state[heap.attrs[Root][a]] # "inactive"
        /\ FirstKeyOf(heap.kids[Root], heap.attrs[Root][a]) # ""

----------------------------------------------------------------------------
(* The entries of the children flagged includeInChildContext that are live *)
LiveProviders(h) ==
  { [id |-> h.infos[Root][i].id, chip |-> h.infos[Root][i].chip] :
      i \in {j \in 1..Len(h.infos[Root]) : h.state[h.infos[Root][j].chip] # "inactive"} }

(* C32: the child-context overlay of a composite holds exactly the children *)
(* flagged includeInChildContext that are live, also when one of them       *)
(* terminated during its own activation, so that the context a child was    *)
(* activated with holds no chip that had terminated by then.                *)
C32_OverlayHoldsLiveChildren ==
  (Root = "cp" /\ heap.err = NoErr /\ heap.state[Root] # "inactive") =>
    /\ heap.childCtx[Root] = LiveProviders(heap)
    /\ (call = "activate" /\ heap.state[Payload] = "active") =>
         \A e \in heap.ctx[Payload] : ~Logged(heap.log, "terminated", e.chip)

----------------------------------------------------------------------------
(* The children of a chip that are not inactive *)
(* The chips that are children of the root and not inactive *)
LiveChildren(h, c) ==
  {h.kids[c][i].chip : i \in {j \in 1..Len(h.kids[c]) : h.state[h.kids[c][j].chip] # "inactive"}}

(* The live descendants of a chip; the trees of the model are at most two   *)
(* levels deep under the root.                                              *)
LiveDescendants(h, c) ==
  LiveChildren(h, c) \cup UNION {LiveChildren(h, d) : d \in LiveChildren(h, c) \cap Composites}

C33_Step ==
  IsComposite(Root) =>
    /\ (heap.state[Root] = "active" /\ call' = "pause")
         => /\ heap'.err = NoErr
            /\ heap'.state[Root] = "paused"
            /\ \A d \in LiveDescendants(heap', Root) : heap'.state[d] = "paused"
    /\ (heap.state[Root] = "paused" /\ call' = "resume")
         => /\ heap'.err = NoErr
            /\ heap'.state[Root] = "active"
            /\ \A d \in LiveDescendants(heap', Root) : heap'.state[d] = "active"
    /\ (heap.state[Root] = "paused" /\ call' = "tick")
         => heap' = Settle(Begin(heap))

(* C33: pause() on an active composite succeeds and leaves it and every     *)
(* live descendant paused, resume() on the paused composite succeeds and    *)
(* leaves them all active, whatever the states of the live children were    *)
(* before the call; a tick() on the paused composite changes nothing.       *)
C33_PauseResumeCascade == [][C33_Step]_vars

----------------------------------------------------------------------------
InQueue(n) == \E i \in 1..Len(heap.queue) : heap.queue[i].n = n

ItemState(n) == heap.queue[CHOOSE i \in 1..Len(heap.queue) : heap.queue[i].n = n].state

(* The item numbered n has had its wrapping Sequence built and activated *)
Activated(n) == \E k \in 1..heap.made : heap.lamItem[QueueLambdas[k]] = n

(* C34: while ticks keep arriving and the items' nodes end by themselves,   *)
(* every item that is in the queue of an active Queue, whenever it was      *)
(* added, is eventually activated and marked finished, and then removed;    *)
(* and the queue is empty again and again, for good once no item is added.  *)
C34_QueueDrains ==
  /\ \A n \in 1..MaxItems :
       /\ (heap.state[Root] = "active" /\ InQueue(n))
            ~> (InQueue(n) /\ ItemState(n) = "finished" /\ Activated(n))
       /\ (InQueue(n) /\ ItemState(n) = "finished") ~> ~InQueue(n)
  /\ []<>(heap.state[Root] = "active" => heap.queue = <<>>)
  /\ (heap.added = MaxItems /\ heap.state[Root] = "active") ~> [](heap.queue = <<>>)

(* Three items were added, the last one while the first was running, and    *)
(* the queue has activated, finished and removed them all.                  *)
C34_Witness ==
  /\ Kind(Root) = "Queue"
  /\ heap.err = NoErr
  /\ heap.state[Root] = "active"
  /\ heap.added = 3
  /\ heap.made = 3
  /\ heap.queue = <<>>
  /\ \A k \in 1..3 : heap.state[QueueSequences[k]] = "inactive"

----------------------------------------------------------------------------
(* The predicate of the Functional returned a truthy value when it was last *)
(* asked, and the chip has not terminated since                             *)
Truthy(h) ==
  /\ h.state[Root] # "inactive"
  /\ FunctionsShouldTerminate(h, Root).t # "false"

(* The signal the truthy value stands for *)
ExpectedSignal ==
  CASE cfg.pred.t = "string" -> Signal(cfg.pred.name, "")
    [] cfg.pred.t = "signal" -> Signal(cfg.pred.name, cfg.pred.params)
    [] OTHER -> DefaultSignal

C35_Step ==
  (Kind(Root) = "Functional" /\ heap'.err = NoErr) =>
    /\ (call' = "tick" /\ Logged(heap'.log, "onTick", Root)
          /\ FunctionsShouldTerminate(heap', Root).t # "false")
         => /\ ~Truthy(heap)
            /\ heap'.state[Root] = "inactive"
            /\ heap'.out[Root] = Some(ExpectedSignal)
    /\ (call' = "activate" /\ Truthy(heap'))
         => heap'.deferred[Root] = Some(ExpectedSignal)
    /\ (call' = "tick" /\ Truthy(heap) /\ heap.state[Root] = "active")
         => /\ ~Logged(heap'.log, "onTick", Root)
            /\ heap'.state[Root] = "inactive"
            /\ heap'.out[Root] = Some(ExpectedSignal)
    /\ Logged(heap'.log, "onTick", Root) => ~Truthy(heap)

(* C35: when the predicate of a Functional returns a truthy value after the *)
(* tick callback, the chip is inactive when that tick() returns; when it    *)
(* does so after the activation callback, the first tick() ends the chip    *)
(* without running the tick callback; no tick callback ever runs while the  *)
(* last answer of the predicate was truthy; and in both cases the output    *)
(* signal is named by the value if it is a string, is the value if it is a  *)
(* signal, and is the default signal otherwise.                             *)
C35_PredicateTerminates == [][C35_Step]_vars

(* The predicate returned "s" after the second tick callback and the chip   *)
(* ended in that tick with the signal s                                     *)
C35_Witness ==
  /\ Kind(Root) = "Functional"
  /\ cfg.pred.t = "string" /\ cfg.predAt = 2
  /\ call = "tick" /\ heap.err = NoErr
  /\ Logged(heap.log, "onTick", Root)
  /\ heap.state[Root] = "inactive"
  /\ heap.out[Root] = Some(Signal("s", ""))

(* The predicate returned a signal after the activation callback and the    *)
(* first tick ended the chip with it, without a tick callback               *)
FunctionalEndsOnFirstTick ==
  /\ Kind(Root) = "Functional"
  /\ cfg.pred.t = "signal" /\ cfg.predAt = 0
  /\ call = "tick" /\ heap.err = NoErr
  /\ ~Logged(heap.log, "onTick", Root)
  /\ heap.state[Root] = "inactive"
  /\ heap.out[Root] = Some(Signal("g", "p"))

----------------------------------------------------------------------------
(* C36: a termination request deferred during one activation of a composite *)
(* has no effect on a later one: when activate() has returned on the        *)
(* composite without any request having been deferred during it, the tick() *)
(* that follows is not cut short by a stored request: its _onTick hook      *)
(* runs.                                                                    *)
C36_FreshActivationForgetsDeferred ==
  [][(IsComposite(Root) /\ call = "activate" /\ heap.err = NoErr /\ heap.state[Root] = "active"
        /\ ~Logged(heap.log, "deferredTerminate", Root) /\ call' = "tick")
       => Logged(heap'.log, "onTick", Root)]_vars

----------------------------------------------------------------------------
(* C37: in every state a Sequence reaches without an exception, whatever    *)
(* the host interleaves, the current index is between 0 and the number of  *)
(* entries.                                                                 *)
C37_IndexWithinEntries ==
  (Kind(Root) = "Sequence" /\ heap.err = NoErr)
    => heap.idx[Root] \in 0..Len(heap.infos[Root])

----------------------------------------------------------------------------
(* How many entries of the children map of c hold chip *)
ChildEntries(h, c, chip) ==
  Cardinality({i \in 1..Len(h.kids[c]) : h.kids[c][i].chip = chip})

(* How many times c emitted e about chip during the call *)
Notified(h, e, chip, c) ==
  Cardinality({i \in 1..Len(h.log) : h.log[i] = Ev(e, chip, c)})

(* C38: a composite emits terminatedChildChip exactly once for every child  *)
(* it activated.  Over every call that returns, for every composite and    *)
(* every chip, the children it held before plus those it announced as      *)
(* activated are those it holds after plus those it announced as           *)
(* terminated, and a composite that is inactive holds no child: no child   *)
(* leaves the map unannounced, none is announced twice, none stays behind. *)
C38_ChildTerminatedOnce ==
  [][heap'.err = NoErr =>
       \A c \in Composites :
         /\ heap'.state[c] = "inactive" => heap'.kids[c] = <<>>
         /\ \A chip \in Chips :
              ChildEntries(heap, c, chip) + Notified(heap', "activatedChildChip", chip, c)
                = ChildEntries(heap', c, chip) + Notified(heap', "terminatedChildChip", chip, c)]_vars

(* pause() on a Sequence removes an entry that ended during its own        *)
(* activation and announces it                                             *)
C38_Witness ==
  /\ Kind(Root) = "Sequence"
  /\ call = "pause"
  /\ heap.err = NoErr
  /\ Notified(heap, "terminatedChildChip", "tr", Root) = 1
  /\ heap.kids[Root] = <<>>

----------------------------------------------------------------------------
(* C39: a StateMachine memento is a snapshot of the history.  When          *)
(* activate() is handed a memento of a StateMachine that records a history *)
(* and returns, visitedStates is the history the memento held, with no     *)
(* entry added or duplicated by the restoration.                           *)
C39_RestoredHistoryIsSnapshot ==
  [][(Kind(Root) = "StateMachine" /\ call' = "activate" /\ hist'.supplied = "adopted"
        /\ heap.saved[1].data.hasVisited /\ heap'.err = NoErr)
       => heap'.visited[Root] = VisitedOf(heap, heap.saved[1])]_vars

----------------------------------------------------------------------------
(* C40: within an activation cycle, a node emits `activated` before it     *)
(* emits `terminated`.  In the notifications of a call that returns, when  *)
(* a node's `terminated` follows the start of its activate() with no other *)
(* activate() of that node in between, its `activated` lies between the    *)
(* two.                                                                     *)
C40_ActivatedBeforeTerminated ==
  heap.err = NoErr =>
    \A c \in Chips : \A i, j \in 1..Len(heap.log) :
      (/\ i < j
       /\ heap.log[i] = Ev("activate", c, "")
       /\ heap.log[j] = Ev("terminated", c, "")
       /\ \A m \in (i + 1)..(j - 1) : heap.log[m] # Ev("activate", c, ""))
        => \E k \in (i + 1)..(j - 1) : heap.log[k] = Ev("activated", c, "")

====
